---------------------------- MODULE Spec2Model ----------------------------
(***************************************************************************)
(* Model of the cryptographic core of the feature-funding app:             *)
(*   - the deterministic address deriver (app: utils/constants.ts,         *)
(*     CLI: feature-key-utils.mjs), on secp256k1;                          *)
(*   - the hybrid ECDH + AES-GCM encryptor/decryptor (app:                 *)
(*     utils/encryption.ts, CLI: crypto-utils.mjs), on P-256.              *)
(*                                                                         *)
(* Byte strings are sequences of 0..255, hex strings are sequences of      *)
(* one-character strings, JavaScript strings are sequences of UTF-16 code  *)
(* units.  Byte layouts keep their real widths (32-byte coordinates,       *)
(* 65-byte points, 12-byte nonces, 16-byte tags).  The two curves are      *)
(* scaled to prime-order curves of the same shape over small prime fields, *)
(* with the real group law; keccak256 and the AES-GCM keystream and tag    *)
(* are small deterministic mixing functions standing for the library       *)
(* primitives.                                                             *)
(***************************************************************************)
EXTENDS Integers, Sequences, FiniteSets, TLC

VARIABLES
    calls,         \* app: number of deriveFeatureAddress calls of the run
    firstCall,     \* app: the first deriveFeatureAddress call of the run
    out,           \* the most recent derive operation and its result
    lenientImport, \* runtime: raw key import also takes the compressed and
                   \* hybrid point forms (OpenSSL-backed runtimes do)
    enc,           \* the most recent encrypt call and its result
    prevEnc,       \* the encrypt call before it
    wire,          \* the blob argument of the decrypt command
    dec,           \* the decrypt command and its result
    tasks,         \* app: the encryptMessage calls in progress, by number
    page,          \* app: the contribution form, with the transactions
                   \* handed to the wallet
    clicks,        \* app: the handleContribute calls, by number
    totals,        \* app: fetchFeatureTotals and what it shows
    wallet,        \* app: the wallet connection (useWallet)
    userBalances   \* app: the visitor's balances (useBalances)

deriveVars == <<calls, firstCall, out>>
cryptoVars == <<lenientImport, enc, prevEnc, wire, dec>>
pageVars == <<page, clicks>>
hostVars == <<tasks, pageVars, totals, wallet, userBalances>>

vars == <<calls, firstCall, out, lenientImport, enc, prevEnc, wire, dec,
          hostVars>>

\* the page around the deriver and the encryptor is not used
PageIdle == page = <<>> /\ clicks = <<>>
TotalsIdle == totals = <<>>
WalletIdle == wallet = <<>>
BalancesIdle == userBalances = <<>>
HostIdle ==
    tasks = <<>> /\ PageIdle /\ TotalsIdle /\ WalletIdle /\ BalancesIdle

-----------------------------------------------------------------------------
(* Bounds of the model                                                     *)

\* longest feature identifier, in UTF-16 code units
MaxIdLen == 2
\* most deriveFeatureAddress calls in one run of the app
MaxCalls == 3
\* largest owner private key given to the CLI derive command
MaxOwnerScalar == 15
\* longest message, in UTF-16 code units
MaxMsgLen == 1
\* number of values the random 12-byte nonce is drawn from
NonceChoices == 2

-----------------------------------------------------------------------------
(* Bytes, hex and text                                                     *)

Byte == 0..255

\* a sequence given as a function on 1..n, as a tuple
AsSeq(f) == f \o <<>>

Pow2(i) == CASE i = 0 -> 1 [] i = 1 -> 2 [] i = 2 -> 4 [] i = 3 -> 8
             [] i = 4 -> 16 [] i = 5 -> 32 [] i = 6 -> 64 [] OTHER -> 128

\* b with bit i inverted
FlipBit(b, i) == IF (b \div Pow2(i)) % 2 = 1 THEN b - Pow2(i) ELSE b + Pow2(i)

HexLower == <<"0", "1", "2", "3", "4", "5", "6", "7",
              "8", "9", "a", "b", "c", "d", "e", "f">>
HexUpper == <<"0", "1", "2", "3", "4", "5", "6", "7",
              "8", "9", "A", "B", "C", "D", "E", "F">>

\* the value of every hex digit, of either case
HexDigits ==
    [c \in {HexLower[v] : v \in 1..16} \cup {HexUpper[v] : v \in 1..16} |->
        (CHOOSE v \in 1..16 : HexLower[v] = c \/ HexUpper[v] = c) - 1]
IsHexChar(c) == c \in DOMAIN HexDigits
HexVal(c) == HexDigits[c]

\* Array.from(buf).map(b => b.toString(16).padStart(2, '0')).join('')
\* and Buffer.from(buf).toString('hex'): two lowercase digits per byte
ab2hex(buf) ==
    AsSeq([i \in 1..(2 * Len(buf)) |->
        IF i % 2 = 1 THEN HexLower[(buf[(i + 1) \div 2] \div 16) + 1]
                     ELSE HexLower[(buf[i \div 2] % 16) + 1]])

\* Buffer.from(hex, 'hex'): decodes pairs of hex digits and stops at the
\* first pair that is not two hex digits; an odd trailing digit is dropped
BufferFromHex(hex) ==
    LET pairs == Len(hex) \div 2
        bad == {k \in 1..pairs :
                   ~IsHexChar(hex[2 * k - 1]) \/ ~IsHexChar(hex[2 * k])}
        n == IF bad = {} THEN pairs
             ELSE (CHOOSE k \in bad : \A j \in bad : k <= j) - 1
    IN  AsSeq([k \in 1..n |->
                 16 * HexVal(hex[2 * k - 1]) + HexVal(hex[2 * k])])

\* CLI, crypto-utils.mjs
hex2ab(hex) == BufferFromHex(hex)

\* app, utils/encryption.ts: hex.match(/.{1,2}/g).map(b => parseInt(b, 16))
\* stored in a Uint8Array: chunks of two characters (the last may be one);
\* parseInt reads the leading hex digits of a chunk and gives NaN, stored
\* as 0, when there are none
appHex2ab(hex) ==
    AsSeq([k \in 1..((Len(hex) + 1) \div 2) |->
        IF ~IsHexChar(hex[2 * k - 1]) THEN 0
        ELSE IF 2 * k > Len(hex) \/ ~IsHexChar(hex[2 * k])
        THEN HexVal(hex[2 * k - 1])
        ELSE 16 * HexVal(hex[2 * k - 1]) + HexVal(hex[2 * k])])

\* CLI, feature-key-utils.mjs
hexToBytes(hex) == BufferFromHex(hex)
bytesToHex(bytes) == ab2hex(bytes)

\* numberToBytesBE(v, 32) for v < 256 (every coordinate and scalar of the
\* scaled curves): 31 zero bytes and the value
Bytes32(v) == AsSeq([i \in 1..32 |-> IF i = 32 THEN v ELSE 0])

\* 256^e modulo m, by squaring
RECURSIVE Pow256Mod(_, _)
Pow256Mod(e, m) ==
    IF e = 0 THEN 1 % m
    ELSE LET h == Pow256Mod(e \div 2, m)
         IN  IF e % 2 = 0 THEN (h * h) % m ELSE (((h * h) % m) * 256) % m

\* big-endian value of bytes[lo..hi] reduced modulo m
RECURSIVE BytesModRange(_, _, _, _)
BytesModRange(bytes, m, lo, hi) ==
    IF lo > hi THEN 0
    ELSE IF lo = hi THEN bytes[lo] % m
    ELSE LET mid == (lo + hi) \div 2
         IN  (BytesModRange(bytes, m, lo, mid) * Pow256Mod(hi - mid, m)
              + BytesModRange(bytes, m, mid + 1, hi)) % m

\* BigInt(bytes) % m
BytesMod(bytes, m) == BytesModRange(bytes, m, 1, Len(bytes))

\* a 32-byte big-endian number is below 256 iff its 31 leading bytes are 0
FitsByte(bytes) == \A i \in 1..(Len(bytes) - 1) : bytes[i] = 0

\* UTF-8 of one code unit of the model's alphabet; the encoder writes
\* U+FFFD for a surrogate that has no partner
Utf8Unit(c) ==
    IF c < 128 THEN <<c>>
    ELSE IF c < 2048 THEN <<192 + (c \div 64), 128 + (c % 64)>>
    ELSE IF c >= 55296 /\ c <= 57343 THEN <<239, 191, 189>>
    ELSE <<224 + (c \div 4096), 128 + ((c \div 64) % 64), 128 + (c % 64)>>

RECURSIVE Utf8From(_, _)
Utf8From(str, i) ==
    IF i > Len(str) THEN <<>> ELSE Utf8Unit(str[i]) \o Utf8From(str, i + 1)

\* new TextEncoder().encode(message)
TextEncode(str) == Utf8From(str, 1)

\* ethers toUtf8Bytes(featureId)
toUtf8Bytes(str) == Utf8From(str, 1)

IsCont(bytes, i) == i <= Len(bytes) /\ bytes[i] >= 128 /\ bytes[i] < 192

\* UTF-8 decoding without the BOM step: malformed input gives U+FFFD
RECURSIVE Utf8DecodeFrom(_, _)
Utf8DecodeFrom(bytes, i) ==
    IF i > Len(bytes) THEN <<>>
    ELSE IF bytes[i] < 128 THEN <<bytes[i]>> \o Utf8DecodeFrom(bytes, i + 1)
    ELSE IF bytes[i] >= 194 /\ bytes[i] < 224 /\ IsCont(bytes, i + 1)
    THEN <<(bytes[i] - 192) * 64 + (bytes[i + 1] - 128)>>
         \o Utf8DecodeFrom(bytes, i + 2)
    ELSE IF bytes[i] >= 224 /\ bytes[i] < 240
            /\ IsCont(bytes, i + 1) /\ IsCont(bytes, i + 2)
            /\ (bytes[i] - 224) * 4096 + (bytes[i + 1] - 128) * 64 >= 2048
            /\ ~(bytes[i] = 237 /\ bytes[i + 1] >= 160)
    THEN <<(bytes[i] - 224) * 4096 + (bytes[i + 1] - 128) * 64
           + (bytes[i + 2] - 128)>> \o Utf8DecodeFrom(bytes, i + 3)
    ELSE <<65533>> \o Utf8DecodeFrom(bytes, i + 1)

\* new TextDecoder().decode(buffer): ignoreBOM is false by default, so a
\* leading byte order mark EF BB BF is removed from the output
TextDecode(bytes) ==
    IF Len(bytes) >= 3 /\ bytes[1] = 239 /\ bytes[2] = 187 /\ bytes[3] = 191
    THEN Utf8DecodeFrom(bytes, 4)
    ELSE Utf8DecodeFrom(bytes, 1)

-----------------------------------------------------------------------------
(* keccak256                                                               *)

\* what bytes[lo..hi] add to the sponge state: every byte weighted by its
\* position
RECURSIVE KeccakAbsorb(_, _, _)
KeccakAbsorb(bytes, lo, hi) ==
    IF lo > hi THEN 0
    ELSE IF lo = hi
    THEN (bytes[lo] + 1) * (1 + ((31 * lo * lo + 17 * lo) % 251))
    ELSE LET mid == (lo + hi) \div 2
         IN  (KeccakAbsorb(bytes, lo, mid) + KeccakAbsorb(bytes, mid + 1, hi))
             % 65521

\* ethers keccak256(data): a 32-byte digest, a fixed function of the input
keccak256(bytes) ==
    LET s == (4 + 131 * Len(bytes) + KeccakAbsorb(bytes, 1, Len(bytes))) % 65521
    IN  AsSeq([j \in 1..32 |->
                 ((s + 13 * j) * (2 * j + 1) + (s \div 256)) % 256])

-----------------------------------------------------------------------------
(* Short Weierstrass curves  y^2 = x^3 + a*x + b  over GF(p)               *)

\* secp256k1 (a = 0, b = 7) over GF(13): a group of prime order 7
SECP256K1_ORDER == 7
secp256k1 == [p |-> 13, a |-> 0, b |-> 7, n |-> SECP256K1_ORDER,
              Gx |-> 7, Gy |-> 5]

\* P-256 (a = -3) over GF(11) with b = 10: a group of prime order 7
P256 == [p |-> 11, a |-> 8, b |-> 10, n |-> 7, Gx |-> 2, Gy |-> 1]

ZERO == [inf |-> TRUE, x |-> 0, y |-> 0]
Pt(x, y) == [inf |-> FALSE, x |-> x, y |-> y]
BASE(c) == Pt(c.Gx, c.Gy)

ModInv(v, p) == CHOOSE i \in 1..(p - 1) : (i * v) % p = 1

\* weierstrassEquation: the point satisfies the curve equation
OnCurve(c, x, y) ==
    /\ x \in 0..(c.p - 1)
    /\ y \in 0..(c.p - 1)
    /\ (y * y) % c.p = (x * x * x + c.a * x + c.b) % c.p

PointDouble(c, P) ==
    IF P.inf \/ P.y = 0 THEN ZERO
    ELSE LET l == ((3 * P.x * P.x + c.a) * ModInv((2 * P.y) % c.p, c.p)) % c.p
             x3 == (l * l + 2 * (c.p - P.x)) % c.p
             y3 == (l * (P.x + c.p - x3) + (c.p - P.y)) % c.p
         IN  Pt(x3, y3)

PointAdd(c, P, Q) ==
    IF P.inf THEN Q
    ELSE IF Q.inf THEN P
    ELSE IF P.x = Q.x
    THEN (IF P.y = Q.y THEN PointDouble(c, P) ELSE ZERO)
    ELSE LET l == ((Q.y + c.p - P.y) * ModInv((Q.x + c.p - P.x) % c.p, c.p)) % c.p
             x3 == (l * l + (c.p - P.x) + (c.p - Q.x)) % c.p
             y3 == (l * (P.x + c.p - x3) + (c.p - P.y)) % c.p
         IN  Pt(x3, y3)

\* k * P by double-and-add
RECURSIVE ScalarMult(_, _, _)
ScalarMult(c, k, P) ==
    IF k = 0 THEN ZERO
    ELSE LET h == PointDouble(c, ScalarMult(c, k \div 2, P))
         IN  IF k % 2 = 1 THEN PointAdd(c, h, P) ELSE h

\* Point.multiply(scalar): the scalar must be in [1, n-1]
multiply(c, P, scalar) ==
    IF scalar \in 1..(c.n - 1)
    THEN [ok |-> TRUE, point |-> ScalarMult(c, scalar, P)]
    ELSE [ok |-> FALSE, point |-> ZERO]

\* Point.toRawBytes(false): 0x04 || X || Y
toRawBytes(P) == <<4>> \o Bytes32(P.x) \o Bytes32(P.y)

\* the y with y^2 = x^3 + a*x + b and the given parity, or -1
SqrtY(c, x, odd) ==
    LET ys == {y \in 0..(c.p - 1) : OnCurve(c, x, y) /\ (y % 2 = 1) = odd}
    IN  IF ys = {} THEN -1 ELSE CHOOSE y \in ys : TRUE

\* ProjectivePoint.fromHex(hex): 33-byte compressed or 65-byte uncompressed
\* encodings of a point on the curve; anything else throws
fromBytes(c, bytes) ==
    IF Len(bytes) = 65 /\ bytes[1] = 4
    THEN LET xb == SubSeq(bytes, 2, 33)
             yb == SubSeq(bytes, 34, 65)
         IN  IF FitsByte(xb) /\ FitsByte(yb) /\ OnCurve(c, xb[32], yb[32])
             THEN [ok |-> TRUE, point |-> Pt(xb[32], yb[32])]
             ELSE [ok |-> FALSE, point |-> ZERO]
    ELSE IF Len(bytes) = 33 /\ bytes[1] \in {2, 3}
    THEN LET xb == SubSeq(bytes, 2, 33)
             y == IF FitsByte(xb) /\ xb[32] < c.p
                  THEN SqrtY(c, xb[32], bytes[1] = 3) ELSE -1
         IN  IF y >= 0 THEN [ok |-> TRUE, point |-> Pt(xb[32], y)]
             ELSE [ok |-> FALSE, point |-> ZERO]
    ELSE [ok |-> FALSE, point |-> ZERO]

fromHex(c, hex) == fromBytes(c, hexToBytes(hex))

\* secp256k1.getPublicKey(privateKeyBytes, false): throws unless the
\* 32-byte key is a scalar in [1, n-1]
getPublicKey(privateKeyBytes) ==
    IF Len(privateKeyBytes) = 32 /\ FitsByte(privateKeyBytes)
       /\ privateKeyBytes[32] \in 1..(secp256k1.n - 1)
    THEN [ok |-> TRUE,
          bytes |-> toRawBytes(ScalarMult(secp256k1, privateKeyBytes[32],
                                          BASE(secp256k1)))]
    ELSE [ok |-> FALSE, bytes |-> <<>>]

-----------------------------------------------------------------------------
(* Deterministic address deriver                                           *)

\* ethers getAddress('0x' + 40 hex digits): the mixed-case checksum form;
\* digit i is upper-cased when nibble i of keccak256(ascii(digits)) >= 8
getAddress(digits) ==
    LET ascii == AsSeq([i \in 1..Len(digits) |->
                    IF HexVal(digits[i]) < 10 THEN 48 + HexVal(digits[i])
                    ELSE 87 + HexVal(digits[i])])
        hashed == keccak256(ascii)
        nibble(i) == IF i % 2 = 1 THEN hashed[(i + 1) \div 2] \div 16
                     ELSE hashed[i \div 2] % 16
    IN  <<"0", "x">> \o
        AsSeq([i \in 1..Len(digits) |->
            IF nibble(i) >= 8 THEN HexUpper[HexVal(digits[i]) + 1]
            ELSE HexLower[HexVal(digits[i]) + 1]])

\* keccak256(uncompressed.slice(1)), the low 20 bytes, checksummed
deriveAddressFromPoint(uncompressedPoint) ==
    LET hash == bytesToHex(keccak256(SubSeq(uncompressedPoint, 2,
                                            Len(uncompressedPoint))))
    IN  getAddress(SubSeq(hash, Len(hash) - 39, Len(hash)))

\* hashFeatureIdToScalar without the remap of zero
hashFeatureIdToScalar_noRemap(featureId) ==
    BytesMod(keccak256(toUtf8Bytes(featureId)), SECP256K1_ORDER)

\* app, utils/constants.ts
hashFeatureIdToScalar(featureId) ==
    LET digest == keccak256(toUtf8Bytes(featureId))
        scalar == BytesMod(digest, SECP256K1_ORDER)
    IN  IF scalar = 0 THEN 1 ELSE scalar

\* the CLI's hashFeatureIdToScalar reading only the low digest byte
cliHashFeatureIdToScalar_lowByte(featureId) ==
    LET digest == keccak256(toUtf8Bytes(featureId))
        scalar == digest[32] % SECP256K1_ORDER
    IN  IF scalar = 0 THEN 1 ELSE scalar

\* CLI, feature-key-utils.mjs
cliHashFeatureIdToScalar(featureId) ==
    LET digest == keccak256(toUtf8Bytes(featureId))
        scalar == BytesMod(digest, SECP256K1_ORDER)
    IN  IF scalar = 0 THEN 1 ELSE scalar

\* the root public key the app is configured with: 3 * G, uncompressed
FEATURE_ROOT_PUBKEY == bytesToHex(toRawBytes(Pt(11, 8)))

NoDerive ==
    [op |-> "none", status |-> "none", featureId |-> <<>>,
     ownerPrivateKeyHex |-> <<>>, scalar |-> 0, derivedHex |-> <<>>,
     derivedPublic |-> <<>>, address |-> <<>>]

\* deriveFeatureAddress keeping the derived point as the root point of the
\* next call
deriveFeatureAddress_movingRoot(featureId) ==
    LET scalar == hashFeatureIdToScalar(featureId)
        rootPoint == fromHex(secp256k1,
                             IF out.op = "deriveFeatureAddress"
                             THEN out.derivedPublic ELSE FEATURE_ROOT_PUBKEY)
        derivedPoint == multiply(secp256k1, rootPoint.point, scalar)
        uncompressed == toRawBytes(derivedPoint.point)
    IN  [NoDerive EXCEPT !.op = "deriveFeatureAddress", !.status = "ok",
            !.featureId = featureId, !.scalar = scalar,
            !.derivedPublic = bytesToHex(uncompressed),
            !.address = deriveAddressFromPoint(uncompressed)]

\* deriveFeatureAddress refusing the empty identifier
deriveFeatureAddress_rejectEmpty(featureId) ==
    LET scalar == hashFeatureIdToScalar(featureId)
        rootPoint == fromHex(secp256k1, FEATURE_ROOT_PUBKEY)
        derivedPoint == multiply(secp256k1, rootPoint.point, scalar)
        uncompressed == toRawBytes(derivedPoint.point)
    IN  IF /\ rootPoint.ok /\ derivedPoint.ok /\ ~derivedPoint.point.inf
           /\ featureId # <<>>
        THEN [NoDerive EXCEPT !.op = "deriveFeatureAddress", !.status = "ok",
                 !.featureId = featureId, !.scalar = scalar,
                 !.derivedPublic = bytesToHex(uncompressed),
                 !.address = deriveAddressFromPoint(uncompressed)]
        ELSE [NoDerive EXCEPT !.op = "deriveFeatureAddress", !.status = "throw",
                 !.featureId = featureId, !.scalar = scalar]

\* app: the address of a feature, from the identifier and the root public
\* key alone
deriveFeatureAddress(featureId) ==
    LET scalar == hashFeatureIdToScalar(featureId)
        rootPoint == fromHex(secp256k1, FEATURE_ROOT_PUBKEY)
        derivedPoint == multiply(secp256k1, rootPoint.point, scalar)
        uncompressed == toRawBytes(derivedPoint.point)
    IN  IF rootPoint.ok /\ derivedPoint.ok /\ ~derivedPoint.point.inf
        THEN [NoDerive EXCEPT !.op = "deriveFeatureAddress", !.status = "ok",
                 !.featureId = featureId, !.scalar = scalar,
                 !.derivedPublic = bytesToHex(uncompressed),
                 !.address = deriveAddressFromPoint(uncompressed)]
        ELSE [NoDerive EXCEPT !.op = "deriveFeatureAddress", !.status = "throw",
                 !.featureId = featureId, !.scalar = scalar]

normalizeHex(value) ==
    IF Len(value) >= 2 /\ value[1] = "0" /\ value[2] = "x"
    THEN SubSeq(value, 3, Len(value)) ELSE value

\* BigInt('0x' + digits) is a SyntaxError unless digits is a non-empty
\* string of hex digits
IsBigIntHex(digits) ==
    Len(digits) > 0 /\ \A i \in 1..Len(digits) : IsHexChar(digits[i])

\* the value of a string of hex digits (at most MaxKeyHexLen of them)
RECURSIVE BigIntHexTo(_, _)
BigIntHexTo(digits, i) ==
    IF i = 0 THEN 0 ELSE 16 * BigIntHexTo(digits, i - 1) + HexVal(digits[i])

BigIntHex(digits) == BigIntHexTo(digits, Len(digits))

\* v.toString(16).padStart(64, '0') for v < 256
ToHex64(v) ==
    AsSeq([i \in 1..64 |-> IF i = 64 THEN HexLower[(v % 16) + 1]
                           ELSE IF i = 63 THEN HexLower[(v \div 16) + 1]
                           ELSE "0"])

\* derive combining the two scalars by addition
derive_additive(featureId, ownerPrivateKeyHex) ==
    LET normalized == normalizeHex(ownerPrivateKeyHex)
        call == [NoDerive EXCEPT !.op = "derive", !.featureId = featureId,
                    !.ownerPrivateKeyHex = ownerPrivateKeyHex]
    IN  IF ~IsBigIntHex(normalized) THEN [call EXCEPT !.status = "throw"]
        ELSE
        LET ownerScalar == BigIntHex(normalized)
            featureScalar == cliHashFeatureIdToScalar(featureId)
            derivedScalar == (ownerScalar + featureScalar) % SECP256K1_ORDER
            safeScalar == IF derivedScalar = 0 THEN 1 ELSE derivedScalar
            derivedHex == ToHex64(safeScalar)
            derivedPublic == getPublicKey(hexToBytes(derivedHex))
        IN  [call EXCEPT !.status = "ok", !.scalar = featureScalar,
                !.derivedHex = derivedHex,
                !.derivedPublic = bytesToHex(derivedPublic.bytes),
                !.address = deriveAddressFromPoint(derivedPublic.bytes)]

\* derive with the feature scalar added to the product
derive_offset(featureId, ownerPrivateKeyHex) ==
    LET normalized == normalizeHex(ownerPrivateKeyHex)
        call == [NoDerive EXCEPT !.op = "derive", !.featureId = featureId,
                    !.ownerPrivateKeyHex = ownerPrivateKeyHex]
    IN  IF ~IsBigIntHex(normalized) THEN [call EXCEPT !.status = "throw"]
        ELSE
        LET ownerScalar == BigIntHex(normalized)
            featureScalar == cliHashFeatureIdToScalar(featureId)
            derivedScalar == (ownerScalar * featureScalar + featureScalar)
                                % SECP256K1_ORDER
            safeScalar == IF derivedScalar = 0 THEN 1 ELSE derivedScalar
            derivedHex == ToHex64(safeScalar)
            derivedPublic == getPublicKey(hexToBytes(derivedHex))
        IN  [call EXCEPT !.status = "ok", !.scalar = featureScalar,
                !.derivedHex = derivedHex,
                !.derivedPublic = bytesToHex(derivedPublic.bytes),
                !.address = deriveAddressFromPoint(derivedPublic.bytes)]

\* CLI: the derived private key, public key and address of a feature
derive(featureId, ownerPrivateKeyHex) ==
    LET normalized == normalizeHex(ownerPrivateKeyHex)
        call == [NoDerive EXCEPT !.op = "derive", !.featureId = featureId,
                    !.ownerPrivateKeyHex = ownerPrivateKeyHex]
    IN  IF ~IsBigIntHex(normalized) THEN [call EXCEPT !.status = "throw"]
        ELSE
        LET ownerScalar == BigIntHex(normalized)
            featureScalar == cliHashFeatureIdToScalar(featureId)
            derivedScalar == (ownerScalar * featureScalar) % SECP256K1_ORDER
            safeScalar == IF derivedScalar = 0 THEN 1 ELSE derivedScalar
            derivedHex == ToHex64(safeScalar)
            derivedBytes == hexToBytes(derivedHex)
            derivedPublic == getPublicKey(derivedBytes)
        IN  IF ~derivedPublic.ok
            THEN [call EXCEPT !.status = "throw", !.scalar = featureScalar]
            ELSE [call EXCEPT !.status = "ok", !.scalar = featureScalar,
                     !.derivedHex = derivedHex,
                     !.derivedPublic = bytesToHex(derivedPublic.bytes),
                     !.address = deriveAddressFromPoint(derivedPublic.bytes)]

\* CLI main, command 'derive': both arguments must be non-empty
mainDerive(featureId, privateKey) ==
    IF featureId = <<>> \/ privateKey = <<>>
    THEN [NoDerive EXCEPT !.op = "derive", !.status = "usage",
             !.featureId = featureId, !.ownerPrivateKeyHex = privateKey]
    ELSE derive(featureId, privateKey)

-----------------------------------------------------------------------------
(* Inputs of the deriver                                                   *)

RECURSIVE SeqsUpTo(_, _)
SeqsUpTo(S, n) ==
    IF n = 0 THEN {<<>>}
    ELSE LET shorter == SeqsUpTo(S, n - 1)
         IN  shorter \cup {Append(q, c) : q \in shorter, c \in S}

\* feature identifiers: 'a', e-acute (two UTF-8 bytes) and their strings
Identifiers == SeqsUpTo({97, 233}, MaxIdLen)

\* v.toString(16) for v < 256
ToHex(v) ==
    IF v < 16 THEN <<HexLower[v + 1]>>
    ELSE <<HexLower[(v \div 16) + 1], HexLower[(v % 16) + 1]>>

\* owner private key arguments: the scalars 0..MaxOwnerScalar in hex, with
\* and without the 0x prefix, and strings that are no hex number
KeyArguments ==
    {ToHex(v) : v \in 0..MaxOwnerScalar}
    \cup {<<"0", "x">> \o ToHex(v) : v \in 0..MaxOwnerScalar}
    \cup {<<>>, <<"g">>, <<"0", "x">>, <<"0", "x", "g">>}

-----------------------------------------------------------------------------
(* The deriver as a state machine                                          *)

\* the encryptor is not used by this specification
EncryptorIdle ==
    /\ lenientImport = FALSE
    /\ enc = <<>>
    /\ prevEnc = <<>>
    /\ wire = <<>>
    /\ dec = <<>>

InitDerive ==
    /\ calls = 0
    /\ firstCall = NoDerive
    /\ out = NoDerive
    /\ EncryptorIdle
    /\ HostIdle

\* the app derives a feature's funding address (any number of times in
\* one run of the app)
DeriveFeatureAddress(featureId) ==
    /\ out.op # "derive"
    /\ calls < MaxCalls
    /\ calls' = calls + 1
    /\ out' = deriveFeatureAddress(featureId)
    /\ firstCall' = IF firstCall.op = "none" THEN out' ELSE firstCall
    /\ UNCHANGED <<cryptoVars, hostVars>>

\* the owner runs  feature-key-utils.mjs derive <featureId> <privateKey>:
\* one command per process
CliDerive(featureId, privateKey) ==
    /\ out.op = "none"
    /\ out' = mainDerive(featureId, privateKey)
    /\ UNCHANGED <<calls, firstCall, cryptoVars, hostVars>>

NextDerive ==
    \/ \E featureId \in Identifiers : DeriveFeatureAddress(featureId)
    \/ \E featureId \in Identifiers, privateKey \in KeyArguments :
          CliDerive(featureId, privateKey)

SpecDerive == InitDerive /\ [][NextDerive]_vars

-----------------------------------------------------------------------------
(* WebCrypto: ECDH on P-256 and AES-GCM                                    *)

\* the owner public key the app is configured with: 3 * G, uncompressed
OWNER_PUBKEY == bytesToHex(toRawBytes(Pt(10, 1)))

\* Uint8Array.prototype.slice(start, end): indices are clamped to the array
Slice(bytes, start, end) ==
    LET hi == IF end > Len(bytes) THEN Len(bytes) ELSE end
    IN  IF start >= hi THEN <<>> ELSE SubSeq(bytes, start + 1, hi)

\* an import that does not look at the format byte of a 65-byte key
importKeyRaw_anyPrefix(bytes) ==
    IF Len(bytes) = 65
    THEN LET xb == SubSeq(bytes, 2, 33)
             yb == SubSeq(bytes, 34, 65)
         IN  IF /\ FitsByte(xb) /\ FitsByte(yb)
                /\ OnCurve(P256, xb[32], yb[32])
             THEN [ok |-> TRUE, point |-> Pt(xb[32], yb[32])]
             ELSE [ok |-> FALSE, point |-> ZERO]
    ELSE [ok |-> FALSE, point |-> ZERO]

\* subtle.importKey('raw', bytes, {name: 'ECDH', namedCurve: 'P-256'}):
\* the uncompressed form 0x04 || X || Y of a point on the curve; a lenient
\* runtime also takes the hybrid form (0x06 or 0x07, the low bit being the
\* parity of Y) and the compressed form (0x02 or 0x03 || X)
importKeyRaw(bytes) ==
    IF Len(bytes) = 65 /\ (bytes[1] = 4 \/ (lenientImport /\ bytes[1] \in {6, 7}))
    THEN LET xb == SubSeq(bytes, 2, 33)
             yb == SubSeq(bytes, 34, 65)
         IN  IF /\ FitsByte(xb) /\ FitsByte(yb)
                /\ OnCurve(P256, xb[32], yb[32])
                /\ (bytes[1] = 4 \/ yb[32] % 2 = bytes[1] % 2)
             THEN [ok |-> TRUE, point |-> Pt(xb[32], yb[32])]
             ELSE [ok |-> FALSE, point |-> ZERO]
    ELSE IF lenientImport /\ Len(bytes) = 33 /\ bytes[1] \in {2, 3}
    THEN LET xb == SubSeq(bytes, 2, 33)
             y == IF FitsByte(xb) /\ xb[32] < P256.p
                  THEN SqrtY(P256, xb[32], bytes[1] = 3) ELSE -1
         IN  IF y >= 0 THEN [ok |-> TRUE, point |-> Pt(xb[32], y)]
             ELSE [ok |-> FALSE, point |-> ZERO]
    ELSE [ok |-> FALSE, point |-> ZERO]

\* subtle.generateKey: the public key of a fresh private scalar
generatedPublicKey(privateScalar) ==
    ScalarMult(P256, privateScalar, BASE(P256))

\* subtle.exportKey('raw', publicKey)
exportKeyRaw(point) == toRawBytes(point)

\* subtle.deriveBits({name: 'ECDH', public}, privateKey, 256): the X
\* coordinate of privateScalar * public, 32 bytes
deriveBits(public, privateScalar) ==
    Bytes32(ScalarMult(P256, privateScalar, public).x)

\* sum of bytes[lo..hi], and the same with every byte weighted by its index
RECURSIVE ByteSum(_, _, _, _)
ByteSum(bytes, lo, hi, weighted) ==
    IF lo > hi THEN 0
    ELSE IF lo = hi THEN (IF weighted THEN lo * bytes[lo] ELSE bytes[lo])
    ELSE LET mid == (lo + hi) \div 2
         IN  ByteSum(bytes, lo, mid, weighted)
             + ByteSum(bytes, mid + 1, hi, weighted)

Xor8(a, b) ==
    LET bit(i) == ((a \div Pow2(i)) + (b \div Pow2(i))) % 2
    IN  bit(0) + 2 * bit(1) + 4 * bit(2) + 8 * bit(3) + 16 * bit(4)
        + 32 * bit(5) + 64 * bit(6) + 128 * bit(7)

\* what the key adds to every keystream and tag byte
KeyMix(key) == BytesMod(key, 251)

\* AES in counter mode: keystream byte i under (key, iv)
AesCtr(key, iv, i) ==
    (7 * KeyMix(key) + ByteSum(iv, 1, Len(iv), TRUE) + 59 * i) % 256

\* the 16-byte GCM tag of a ciphertext under (key, iv): it changes when
\* the key changes and when any bit of iv or of the ciphertext changes
GcmTag(key, iv, ct) ==
    LET k == KeyMix(key)
    IN  AsSeq([j \in 1..16 |->
            (k + (IF j <= 12 THEN (IF j <= Len(iv) THEN iv[j] ELSE 0)
                  ELSE IF j = 13 THEN ByteSum(ct, 1, Len(ct), FALSE)
                  ELSE IF j = 14 THEN ByteSum(ct, 1, Len(ct), TRUE)
                  ELSE IF j = 15 THEN Len(ct)
                  ELSE Len(iv))) % 256])

\* subtle.encrypt({name: 'AES-GCM', iv}, aesKey, data): ciphertext || tag
AesGcmEncrypt(key, iv, data) ==
    LET ct == AsSeq([i \in 1..Len(data) |-> Xor8(data[i], AesCtr(key, iv, i))])
    IN  ct \o GcmTag(key, iv, ct)

\* AES-GCM decryption that releases the plaintext without verifying the tag
AesGcmDecrypt_unauthenticated(key, iv, data) ==
    IF Len(iv) = 0 \/ Len(data) < 16 THEN [ok |-> FALSE, data |-> <<>>]
    ELSE LET ct == SubSeq(data, 1, Len(data) - 16)
         IN  [ok |-> TRUE,
              data |-> AsSeq([i \in 1..Len(ct) |->
                                 Xor8(ct[i], AesCtr(key, iv, i))])]

\* AES-GCM decryption that gives an empty plaintext for data shorter than a
\* tag
AesGcmDecrypt_shortDataEmpty(key, iv, data) ==
    IF Len(iv) = 0 \/ Len(data) < 16 THEN [ok |-> TRUE, data |-> <<>>]
    ELSE LET ct == SubSeq(data, 1, Len(data) - 16)
             tag == SubSeq(data, Len(data) - 15, Len(data))
         IN  IF tag # GcmTag(key, iv, ct) THEN [ok |-> FALSE, data |-> <<>>]
             ELSE [ok |-> TRUE,
                   data |-> AsSeq([i \in 1..Len(ct) |->
                                      Xor8(ct[i], AesCtr(key, iv, i))])]

\* subtle.decrypt({name: 'AES-GCM', iv}, aesKey, data): the plaintext, or an
\* OperationError when the iv is empty, the data is shorter than a tag or
\* the tag does not verify
AesGcmDecrypt(key, iv, data) ==
    IF Len(iv) = 0 \/ Len(data) < 16 THEN [ok |-> FALSE, data |-> <<>>]
    ELSE LET ct == SubSeq(data, 1, Len(data) - 16)
             tag == SubSeq(data, Len(data) - 15, Len(data))
         IN  IF tag # GcmTag(key, iv, ct) THEN [ok |-> FALSE, data |-> <<>>]
             ELSE [ok |-> TRUE,
                   data |-> AsSeq([i \in 1..Len(ct) |->
                                      Xor8(ct[i], AesCtr(key, iv, i))])]

-----------------------------------------------------------------------------
(* Hybrid encryptor and decryptor                                          *)

NoEncrypt ==
    [op |-> "none", status |-> "none", ownerPubKeyHex |-> <<>>,
     message |-> <<>>, ephemeralPrivate |-> 0, iv |-> <<>>, blob |-> <<>>]

\* encryptMessage with a constant iv in place of the random one
encryptMessage_fixedNonce(ownerPubKeyHex, message, ephemeralPrivate, iv) ==
    LET call == [NoEncrypt EXCEPT !.op = "encryptMessage",
                    !.ownerPubKeyHex = ownerPubKeyHex, !.message = message,
                    !.ephemeralPrivate = ephemeralPrivate, !.iv = iv]
        ownerPubKey == importKeyRaw(appHex2ab(ownerPubKeyHex))
        iv0 == AsSeq([i \in 1..12 |-> 0])
    IN  IF ~ownerPubKey.ok THEN [call EXCEPT !.status = "throw"]
        ELSE
        LET aesKey == deriveBits(ownerPubKey.point, ephemeralPrivate)
            ciphertext == AesGcmEncrypt(aesKey, iv0, TextEncode(message))
            ephemeralPubKeyRaw ==
                exportKeyRaw(generatedPublicKey(ephemeralPrivate))
            output == ephemeralPubKeyRaw \o iv0 \o ciphertext
        IN  [call EXCEPT !.status = "ok", !.blob = ab2hex(output)]

\* encryptMessage writing the iv before the ephemeral public key
encryptMessage_nonceFirst(ownerPubKeyHex, message, ephemeralPrivate, iv) ==
    LET call == [NoEncrypt EXCEPT !.op = "encryptMessage",
                    !.ownerPubKeyHex = ownerPubKeyHex, !.message = message,
                    !.ephemeralPrivate = ephemeralPrivate, !.iv = iv]
        ownerPubKey == importKeyRaw(appHex2ab(ownerPubKeyHex))
    IN  IF ~ownerPubKey.ok THEN [call EXCEPT !.status = "throw"]
        ELSE
        LET aesKey == deriveBits(ownerPubKey.point, ephemeralPrivate)
            ciphertext == AesGcmEncrypt(aesKey, iv, TextEncode(message))
            ephemeralPubKeyRaw ==
                exportKeyRaw(generatedPublicKey(ephemeralPrivate))
            output == iv \o ephemeralPubKeyRaw \o ciphertext
        IN  [call EXCEPT !.status = "ok", !.blob = ab2hex(output)]

\* app, utils/encryption.ts: the blob for a message, in hex; the ephemeral
\* private key and the iv are the values the random source returned
encryptMessage(ownerPubKeyHex, message, ephemeralPrivate, iv) ==
    LET call == [NoEncrypt EXCEPT !.op = "encryptMessage",
                    !.ownerPubKeyHex = ownerPubKeyHex, !.message = message,
                    !.ephemeralPrivate = ephemeralPrivate, !.iv = iv]
        ownerPubKey == importKeyRaw(appHex2ab(ownerPubKeyHex))
    IN  IF ~ownerPubKey.ok THEN [call EXCEPT !.status = "throw"]
        ELSE
        LET sharedSecretBits == deriveBits(ownerPubKey.point, ephemeralPrivate)
            aesKey == sharedSecretBits
            encodedMessage == TextEncode(message)
            ciphertext == AesGcmEncrypt(aesKey, iv, encodedMessage)
            ephemeralPubKeyRaw ==
                exportKeyRaw(generatedPublicKey(ephemeralPrivate))
            output == ephemeralPubKeyRaw \o iv \o ciphertext
        IN  [call EXCEPT !.status = "ok", !.blob = ab2hex(output)]

\* CLI, crypto-utils.mjs: prints the blob for a message, in hex
encrypt(ownerPubKeyHex, message, ephemeralPrivate, iv) ==
    LET call == [NoEncrypt EXCEPT !.op = "encrypt",
                    !.ownerPubKeyHex = ownerPubKeyHex, !.message = message,
                    !.ephemeralPrivate = ephemeralPrivate, !.iv = iv]
        ownerPubKey == importKeyRaw(hex2ab(ownerPubKeyHex))
    IN  IF ~ownerPubKey.ok THEN [call EXCEPT !.status = "throw"]
        ELSE
        LET sharedSecretBits == deriveBits(ownerPubKey.point, ephemeralPrivate)
            aesKey == sharedSecretBits
            encodedMessage == TextEncode(message)
            ciphertext == AesGcmEncrypt(aesKey, iv, encodedMessage)
            ephemeralPubKeyRaw ==
                exportKeyRaw(generatedPublicKey(ephemeralPrivate))
            output == ephemeralPubKeyRaw \o iv \o ciphertext
        IN  [call EXCEPT !.status = "ok", !.blob = ab2hex(output)]

\* CLI main, command 'encrypt': both arguments must be non-empty
mainEncrypt(pubKey, message, ephemeralPrivate, iv) ==
    IF pubKey = <<>> \/ message = <<>>
    THEN [NoEncrypt EXCEPT !.op = "encrypt", !.status = "usage",
             !.ownerPubKeyHex = pubKey, !.message = message]
    ELSE encrypt(pubKey, message, ephemeralPrivate, iv)

NoDecrypt ==
    [op |-> "none", status |-> "none", error |-> "none", privateScalar |-> 0,
     printed |-> FALSE, text |-> <<>>,
     ephemeralPubKeyBytes |-> <<>>, iv |-> <<>>, ciphertext |-> <<>>]

\* CLI, crypto-utils.mjs: decrypts a blob with the private key of a JWK and
\* prints the message.  status is how the promise settled; printed tells
\* whether 'Decrypted Message:' was written, and text what followed it
decrypt(privateScalar, encryptedBlobHex) ==
    LET encryptedBlob == hex2ab(encryptedBlobHex)
        pubKeyLen == 65
        ivLen == 12
        ephemeralPubKeyBytes == Slice(encryptedBlob, 0, pubKeyLen)
        iv == Slice(encryptedBlob, pubKeyLen, pubKeyLen + ivLen)
        ciphertext == Slice(encryptedBlob, pubKeyLen + ivLen,
                            Len(encryptedBlob))
        call == [NoDecrypt EXCEPT !.op = "decrypt",
                    !.privateScalar = privateScalar,
                    !.ephemeralPubKeyBytes = ephemeralPubKeyBytes,
                    !.iv = iv, !.ciphertext = ciphertext]
        ephemeralPubKey == importKeyRaw(ephemeralPubKeyBytes)
    IN  IF ~ephemeralPubKey.ok
        THEN [call EXCEPT !.status = "rejected", !.error = "DataError"]
        ELSE
        LET sharedSecretBits == deriveBits(ephemeralPubKey.point, privateScalar)
            aesKey == sharedSecretBits
            decryptedBuffer == AesGcmDecrypt(aesKey, iv, ciphertext)
        IN  IF decryptedBuffer.ok
            THEN [call EXCEPT !.status = "resolved", !.printed = TRUE,
                     !.text = TextDecode(decryptedBuffer.data)]
            ELSE \* catch (e): console.error('Decryption failed:', ...)
                 [call EXCEPT !.status = "resolved",
                     !.error = "OperationError"]

\* CLI main, command 'decrypt': both arguments must be non-empty
mainDecrypt(privateScalar, blob) ==
    IF blob = <<>>
    THEN [NoDecrypt EXCEPT !.op = "decrypt", !.status = "usage",
             !.privateScalar = privateScalar]
    ELSE decrypt(privateScalar, blob)

-----------------------------------------------------------------------------
(* Inputs of the encryptor                                                 *)

\* messages: 'a' and U+FEFF (three UTF-8 bytes) and their strings
Messages == SeqsUpTo({97, 65279}, MaxMsgLen)

\* private scalars of P-256 key pairs: ephemeral keys and JWK arguments
PrivateScalars == 1..(P256.n - 1)

\* the values getRandomValues(new Uint8Array(12)) is drawn from
Nonces ==
    {AsSeq([i \in 1..12 |-> (101 * v + 29 * i) % 256]) : v \in 1..NonceChoices}

\* the public keys given to the CLI encrypt command: every valid key
RecipientKeys ==
    {bytesToHex(toRawBytes(generatedPublicKey(d))) : d \in PrivateScalars}

\* the private scalar of a public key given in hex
PrivateOf(pubKeyHex) ==
    CHOOSE d \in PrivateScalars :
        bytesToHex(toRawBytes(generatedPublicKey(d))) = pubKeyHex

\* hex with one bit of one byte inverted
FlipHex(hex, byte, bit) ==
    LET digit == IF bit >= 4 THEN 2 * byte - 1 ELSE 2 * byte
    IN  [hex EXCEPT
            ![digit] = HexLower[FlipBit(HexVal(hex[digit]), bit % 4) + 1]]

-----------------------------------------------------------------------------
(* The encryptor and decryptor as a state machine                          *)

\* the deriver is not used by these specifications
DeriverIdle ==
    /\ calls = 0
    /\ firstCall = NoDerive
    /\ out = NoDerive

InitCrypto ==
    /\ DeriverIdle
    /\ lenientImport \in BOOLEAN
    /\ enc = NoEncrypt
    /\ prevEnc = NoEncrypt
    /\ wire = <<>>
    /\ dec = NoDecrypt
    /\ HostIdle

\* the app seals a message for the owner
EncryptMessage(message, ephemeralPrivate, iv) ==
    /\ enc.op = "none"
    /\ enc' = encryptMessage(OWNER_PUBKEY, message, ephemeralPrivate, iv)
    /\ UNCHANGED <<deriveVars, lenientImport, prevEnc, wire, dec, hostVars>>

\* the app seals another message for the owner in the same run
EncryptMessageAgain(message, ephemeralPrivate, iv) ==
    /\ enc.op = "encryptMessage"
    /\ prevEnc.op = "none"
    /\ prevEnc' = enc
    /\ enc' = encryptMessage(OWNER_PUBKEY, message, ephemeralPrivate, iv)
    /\ UNCHANGED <<deriveVars, lenientImport, wire, dec, hostVars>>

\* crypto-utils.mjs encrypt <ownerPubKeyHex> <message>: one command per
\* process
CliEncrypt(pubKey, message, ephemeralPrivate, iv) ==
    /\ enc.op = "none"
    /\ enc' = mainEncrypt(pubKey, message, ephemeralPrivate, iv)
    /\ UNCHANGED <<deriveVars, lenientImport, prevEnc, wire, dec, hostVars>>

\* crypto-utils.mjs decrypt <jwk> <blob> on the blob as it was produced
CliDecrypt(privateScalar) ==
    /\ enc.status = "ok"
    /\ dec.op = "none"
    /\ wire' = enc.blob
    /\ dec' = mainDecrypt(privateScalar, wire')
    /\ UNCHANGED <<deriveVars, lenientImport, enc, prevEnc, hostVars>>

\* crypto-utils.mjs decrypt <jwk> <blob> with the recipient's own key, on
\* the blob with one bit inverted on the way
CliDecryptTampered(byte, bit) ==
    /\ enc.status = "ok"
    /\ dec.op = "none"
    /\ byte <= Len(enc.blob) \div 2
    /\ wire' = FlipHex(enc.blob, byte, bit)
    /\ dec' = mainDecrypt(PrivateOf(enc.ownerPubKeyHex), wire')
    /\ UNCHANGED <<deriveVars, lenientImport, enc, prevEnc, hostVars>>

\* one encryption, by the app or the CLI, and one decryption of its blob
NextEncrypt ==
    \/ /\ enc.op = "none"
       /\ \E message \in Messages, e \in PrivateScalars, iv \in Nonces :
             EncryptMessage(message, e, iv)
    \/ /\ enc.op = "none"
       /\ \E pubKey \in RecipientKeys \cup {<<>>}, message \in Messages,
             e \in PrivateScalars, iv \in Nonces :
             CliEncrypt(pubKey, message, e, iv)
    \/ \E d \in PrivateScalars : CliDecrypt(d)

SpecEncrypt == InitCrypto /\ [][NextEncrypt]_vars

\* two encryptions in one run of the app
NextTwice ==
    \/ /\ enc.op = "none"
       /\ \E message \in Messages, e \in PrivateScalars, iv \in Nonces :
             EncryptMessage(message, e, iv)
    \/ /\ prevEnc.op = "none"
       /\ \E message \in Messages, e \in PrivateScalars, iv \in Nonces :
             EncryptMessageAgain(message, e, iv)

SpecTwice == InitCrypto /\ [][NextTwice]_vars

\* one encryption by the app and one decryption of the tampered blob
NextTamper ==
    \/ /\ enc.op = "none"
       /\ \E message \in Messages, e \in PrivateScalars, iv \in Nonces :
             EncryptMessage(message, e, iv)
    \/ /\ dec.op = "none"
       /\ \E byte \in 1..(Len(enc.blob) \div 2), bit \in 0..7 :
             CliDecryptTampered(byte, bit)

SpecTamper == InitCrypto /\ [][NextTamper]_vars

-----------------------------------------------------------------------------
(* Properties of the deriver                                               *)

\* the owner scalar the derive command read from its key argument
OwnerScalarOf(call) == BigIntHex(normalizeHex(call.ownerPrivateKeyHex))

\* the derive function ran on a key argument that is a hex number
DeriveRan(call) ==
    /\ call.op = "derive"
    /\ call.status # "usage"
    /\ IsBigIntHex(normalizeHex(call.ownerPrivateKeyHex))

\* the key argument is the root private key: a scalar k in [1, n-1] with
\* k * G the configured root public key
IsRootPrivate(k) ==
    /\ k \in 1..(SECP256K1_ORDER - 1)
    /\ bytesToHex(toRawBytes(ScalarMult(secp256k1, k, BASE(secp256k1))))
          = FEATURE_ROOT_PUBKEY

\* the number a string of 64 hex digits stands for, when below 256
Hex64Value(hex) ==
    IF Len(hex) = 64 /\ FitsByte(hexToBytes(hex)) THEN hexToBytes(hex)[32]
    ELSE -1

\* C1: when the CLI derive runs with the root private key, the public key
\* and the address it prints are the ones the app derives for the same
\* identifier from the root public key alone.
C1_PrivatePublicConsistent ==
    (DeriveRan(out) /\ IsRootPrivate(OwnerScalarOf(out)))
    => /\ out.status = "ok"
       /\ out.derivedPublic = deriveFeatureAddress(out.featureId).derivedPublic
       /\ out.address = deriveFeatureAddress(out.featureId).address
       /\ getPublicKey(hexToBytes(out.derivedHex)).bytes
             = hexToBytes(out.derivedPublic)

C1_Witness ==
    /\ DeriveRan(out)
    /\ IsRootPrivate(OwnerScalarOf(out))
    /\ out.status = "ok"
    /\ Len(out.featureId) = 2

\* C4: derivation is never degenerate: every app derivation and every CLI
\* derivation on a hex key succeeds, with a derived private scalar in
\* [1, n-1] and a derived public key that is a valid point other than the
\* point at infinity, for every identifier (the empty one included).
C4_NonDegenerate ==
    /\ out.op = "deriveFeatureAddress"
       => /\ out.status = "ok"
          /\ out.scalar \in 1..(SECP256K1_ORDER - 1)
          /\ fromHex(secp256k1, out.derivedPublic).ok
          /\ ~fromHex(secp256k1, out.derivedPublic).point.inf
    /\ DeriveRan(out)
       => /\ out.status = "ok"
          /\ Hex64Value(out.derivedHex) \in 1..(SECP256K1_ORDER - 1)
          /\ fromHex(secp256k1, out.derivedPublic).ok
          /\ ~fromHex(secp256k1, out.derivedPublic).point.inf

\* the app derives the address of the empty identifier
C4_Witness ==
    /\ out.op = "deriveFeatureAddress"
    /\ out.featureId = <<>>
    /\ out.status = "ok"
    /\ out.scalar \in 1..(SECP256K1_ORDER - 1)

C10_ScalarInRange ==
    out.status = "ok"
    => /\ out.scalar \in 1..(SECP256K1_ORDER - 1)
       /\ out.scalar = hashFeatureIdToScalar(out.featureId)
       /\ out.scalar = cliHashFeatureIdToScalar(out.featureId)
       /\ LET r == BytesMod(keccak256(toUtf8Bytes(out.featureId)),
                            SECP256K1_ORDER)
          IN  out.scalar = (IF r = 0 THEN 1 ELSE r)
       /\ firstCall.featureId = out.featureId /\ firstCall.op # "none"
          => firstCall.scalar = out.scalar

\* an identifier whose digest is a multiple of n, through the CLI
C10_Witness ==
    /\ out.op = "derive"
    /\ out.status = "ok"
    /\ BytesMod(keccak256(toUtf8Bytes(out.featureId)), SECP256K1_ORDER) = 0
    /\ out.scalar = 1

-----------------------------------------------------------------------------
(* Properties of the encryptor and decryptor                               *)

\* decrypt ran on a blob (it got past the argument check of main)
DecryptRan == dec.op = "decrypt" /\ dec.status # "usage"

\* the private scalar of the key pair the blob was sealed for
RecipientPrivate == PrivateOf(enc.ownerPubKeyHex)

\* the AES key an encryption used
AesKeyOf(call) ==
    deriveBits(importKeyRaw(hex2ab(call.ownerPubKeyHex)).point,
               call.ephemeralPrivate)

\* C2: decrypt with the recipient's private key, on a blob that encrypt or
\* encryptMessage produced for the recipient's public key, prints exactly
\* the message that was encrypted.
C2_RoundTrip ==
    (DecryptRan /\ wire = enc.blob /\ dec.privateScalar = RecipientPrivate)
        => (dec.printed /\ dec.text = enc.message)

\* C3: after any single bit of a valid blob is inverted (in the ephemeral
\* public key, the nonce or the ciphertext and tag), decrypt with the
\* recipient's key fails, the altered key not importing or the tag not
\* verifying, and prints no plaintext.
C3_TamperDetected ==
    (DecryptRan /\ wire # enc.blob)
        => (dec.error # "none" /\ ~dec.printed)

\* C6: when the AES-GCM tag does not verify (or the blob does not decode),
\* decrypt does not complete normally: its promise is rejected, and no
\* plaintext is printed.
C6_FailureSurfaced ==
    (DecryptRan /\ dec.error # "none")
        => (dec.status = "rejected" /\ ~dec.printed)

\* C7 as stated: two encryptions of the same message for the same key give
\* two different blobs, and never use the same (AES key, nonce) pair.
C7_BlobsDiffer ==
    (prevEnc.status = "ok" /\ enc.status = "ok"
        /\ prevEnc.message = enc.message)
        => (/\ prevEnc.blob # enc.blob
            /\ <<AesKeyOf(prevEnc), prevEnc.iv>> # <<AesKeyOf(enc), enc.iv>>)

\* C7, amended: two encryptions of the same message for the same key give
\* different blobs whenever the two calls drew different ephemeral keys or
\* different nonces, and they use the same (AES key, nonce) pair only when
\* they drew the same nonce and the same ephemeral scalar or its negation.
C7_BlobsDifferWhenDrawsDiffer ==
    (prevEnc.status = "ok" /\ enc.status = "ok"
        /\ prevEnc.message = enc.message)
        => (/\ (prevEnc.ephemeralPrivate # enc.ephemeralPrivate
                   \/ prevEnc.iv # enc.iv) => prevEnc.blob # enc.blob
            /\ <<AesKeyOf(prevEnc), prevEnc.iv>> = <<AesKeyOf(enc), enc.iv>>
                  => /\ prevEnc.iv = enc.iv
                     /\ enc.ephemeralPrivate \in
                           {prevEnc.ephemeralPrivate,
                            P256.n - prevEnc.ephemeralPrivate})

C7_Witness ==
    /\ prevEnc.status = "ok" /\ enc.status = "ok"
    /\ prevEnc.message = enc.message
    /\ prevEnc.ephemeralPrivate = enc.ephemeralPrivate
    /\ prevEnc.iv # enc.iv
    /\ prevEnc.blob # enc.blob

\* C8 as stated: decrypt with any private scalar other than the recipient's
\* fails and prints nothing.
C8_OnlyMatchingKey ==
    (DecryptRan /\ wire = enc.blob /\ dec.privateScalar # RecipientPrivate)
        => (dec.error # "none" /\ ~dec.printed)

\* C8, amended: decrypt with any private scalar other than the recipient's
\* scalar d and its negation n - d fails the authentication of the tag and
\* prints nothing; with n - d it derives the same AES key as with d.
C8_OnlyMatchingOrNegatedKey ==
    (DecryptRan /\ wire = enc.blob)
        => /\ dec.privateScalar \notin
                 {RecipientPrivate, P256.n - RecipientPrivate}
              => (dec.error = "OperationError" /\ ~dec.printed)
           /\ dec.privateScalar = P256.n - RecipientPrivate
              => (dec.error = "none" /\ dec.printed)

C8_Witness ==
    /\ DecryptRan /\ wire = enc.blob
    /\ dec.privateScalar \notin {RecipientPrivate, P256.n - RecipientPrivate}
    /\ dec.error = "OperationError"
    /\ enc.message # <<>>

\* C9: a blob is the 65-byte uncompressed ephemeral public key, then the
\* 12-byte nonce of the encryption, then the ciphertext and its 16-byte
\* tag, 77 + (bytes of the plaintext) + 16 bytes in all; decrypt splits the
\* blob it is given at the offsets 65 and 77.
C9_BlobLayout ==
    /\ enc.status = "ok" =>
          LET blob == hex2ab(enc.blob)
              plaintext == TextEncode(enc.message)
          IN  /\ Len(blob) = 77 + Len(plaintext) + 16
              /\ Slice(blob, 0, 65) =
                    toRawBytes(generatedPublicKey(enc.ephemeralPrivate))
              /\ Slice(blob, 0, 65)[1] = 4
              /\ Slice(blob, 65, 77) = enc.iv
              /\ Slice(blob, 77, Len(blob)) =
                    AesGcmEncrypt(AesKeyOf(enc), enc.iv, plaintext)
    /\ DecryptRan =>
          LET blob == hex2ab(wire)
          IN  /\ dec.ephemeralPubKeyBytes = Slice(blob, 0, 65)
              /\ dec.iv = Slice(blob, 65, 77)
              /\ dec.ciphertext = Slice(blob, 77, Len(blob))
              /\ dec.ephemeralPubKeyBytes \o dec.iv \o dec.ciphertext = blob

C9_Witness ==
    /\ enc.op = "encryptMessage" /\ enc.status = "ok"
    /\ Len(enc.message) = MaxMsgLen
    /\ DecryptRan
    /\ dec.iv = enc.iv
    /\ Len(dec.ciphertext) = Len(TextEncode(enc.message)) + 16

-----------------------------------------------------------------------------
(* Concurrent encryptMessage calls                                         *)

\* most encryptMessage calls in progress at one time
MaxTasks == 2

\* an encryptMessage call: the await it is suspended at, and its locals
NoTask ==
    [at |-> "none", ownerPubKeyHex |-> <<>>, message |-> <<>>,
     ownerPubKey |-> ZERO, ephemeralPrivate |-> 0, sharedSecretBits |-> <<>>,
     aesKey |-> <<>>, iv |-> <<>>, encodedMessage |-> <<>>,
     ciphertext |-> <<>>, result |-> <<>>]

\* encryptMessage up to its first await: the key import is requested
encryptMessageCall(ownerPubKeyHex, message) ==
    [NoTask EXCEPT !.at = "importKey", !.ownerPubKeyHex = ownerPubKeyHex,
        !.message = message]

\* a step of call t that reads the key and the iv of call 1
encryptMessageStep_sharedLocals(t, ephemeralPrivate, iv) ==
    LET task == tasks[t]
        first == tasks[1]
    IN  CASE task.at = "importKey" ->
                LET ownerPubKey == importKeyRaw(appHex2ab(task.ownerPubKeyHex))
                IN  IF ownerPubKey.ok
                    THEN [task EXCEPT !.at = "generateKey",
                             !.ownerPubKey = ownerPubKey.point]
                    ELSE [task EXCEPT !.at = "rejected"]
          [] task.at = "generateKey" ->
                [task EXCEPT !.at = "deriveBits",
                    !.ephemeralPrivate = ephemeralPrivate]
          [] task.at = "deriveBits" ->
                [task EXCEPT !.at = "importAesKey",
                    !.sharedSecretBits =
                        deriveBits(task.ownerPubKey, task.ephemeralPrivate)]
          [] task.at = "importAesKey" ->
                [task EXCEPT !.at = "encrypt",
                    !.aesKey = task.sharedSecretBits,
                    !.iv = iv,
                    !.encodedMessage = TextEncode(task.message)]
          [] task.at = "encrypt" ->
                [task EXCEPT !.at = "exportKey",
                    !.ciphertext =
                        AesGcmEncrypt(first.aesKey, first.iv,
                                      task.encodedMessage)]
          [] task.at = "exportKey" ->
                LET ephemeralPubKeyRaw ==
                        exportKeyRaw(generatedPublicKey(task.ephemeralPrivate))
                    output == ephemeralPubKeyRaw \o task.iv \o task.ciphertext
                IN  [task EXCEPT !.at = "returned", !.result = ab2hex(output)]
          [] OTHER -> task

\* app, utils/encryption.ts: call t continues after the await it is
\* suspended at, up to its next await or its return; ephemeralPrivate is what
\* generateKey resolves with and iv what getRandomValues returns
encryptMessageStep(t, ephemeralPrivate, iv) ==
    LET task == tasks[t]
    IN  CASE task.at = "importKey" ->
                LET ownerPubKey == importKeyRaw(appHex2ab(task.ownerPubKeyHex))
                IN  IF ownerPubKey.ok
                    THEN [task EXCEPT !.at = "generateKey",
                             !.ownerPubKey = ownerPubKey.point]
                    ELSE [task EXCEPT !.at = "rejected"]
          [] task.at = "generateKey" ->
                [task EXCEPT !.at = "deriveBits",
                    !.ephemeralPrivate = ephemeralPrivate]
          [] task.at = "deriveBits" ->
                [task EXCEPT !.at = "importAesKey",
                    !.sharedSecretBits =
                        deriveBits(task.ownerPubKey, task.ephemeralPrivate)]
          [] task.at = "importAesKey" ->
                [task EXCEPT !.at = "encrypt",
                    !.aesKey = task.sharedSecretBits,
                    !.iv = iv,
                    !.encodedMessage = TextEncode(task.message)]
          [] task.at = "encrypt" ->
                [task EXCEPT !.at = "exportKey",
                    !.ciphertext =
                        AesGcmEncrypt(task.aesKey, task.iv,
                                      task.encodedMessage)]
          [] task.at = "exportKey" ->
                LET ephemeralPubKeyRaw ==
                        exportKeyRaw(generatedPublicKey(task.ephemeralPrivate))
                    output == ephemeralPubKeyRaw \o task.iv \o task.ciphertext
                IN  [task EXCEPT !.at = "returned", !.result = ab2hex(output)]
          [] OTHER -> task

Pending(t) == tasks[t].at \notin {"none", "returned", "rejected"}

\* the ephemeral scalars concurrent calls draw: one more value than there
\* are calls, so that calls draw equal values and different ones
TaskScalars == 1..(MaxTasks + 1)

InitConcurrent ==
    /\ BalancesIdle
    /\ DeriverIdle
    /\ lenientImport = FALSE
    /\ enc = NoEncrypt
    /\ prevEnc = NoEncrypt
    /\ wire = <<>>
    /\ dec = NoDecrypt
    /\ tasks = [t \in 1..MaxTasks |-> NoTask]
    /\ PageIdle /\ TotalsIdle /\ WalletIdle

\* the page calls encryptMessage(OWNER_PUBKEY, message); calls are numbered
\* in the order they are made
CallEncryptMessage(t, message) ==
    /\ tasks[t].at = "none"
    /\ t > 1 => tasks[t - 1].at # "none"
    /\ tasks' = [tasks EXCEPT ![t] = encryptMessageCall(OWNER_PUBKEY, message)]
    /\ UNCHANGED <<deriveVars, cryptoVars, pageVars, totals, wallet, userBalances>>

\* generateKey resolves for call t
GenerateKeyResolves(t, ephemeralPrivate) ==
    /\ tasks[t].at = "generateKey"
    /\ tasks' = [tasks EXCEPT
                    ![t] = encryptMessageStep(t, ephemeralPrivate, <<>>)]
    /\ UNCHANGED <<deriveVars, cryptoVars, pageVars, totals, wallet, userBalances>>

\* the import of the AES key resolves for call t, which then draws its iv
AesKeyImported(t, iv) ==
    /\ tasks[t].at = "importAesKey"
    /\ tasks' = [tasks EXCEPT ![t] = encryptMessageStep(t, 0, iv)]
    /\ UNCHANGED <<deriveVars, cryptoVars, pageVars, totals, wallet, userBalances>>

\* any other awaited operation resolves for call t
AwaitResolves(t) ==
    /\ tasks[t].at \in {"importKey", "deriveBits", "encrypt", "exportKey"}
    /\ tasks' = [tasks EXCEPT ![t] = encryptMessageStep(t, 0, <<>>)]
    /\ UNCHANGED <<deriveVars, cryptoVars, pageVars, totals, wallet, userBalances>>

\* the page derives a funding address while encryptMessage calls are
\* suspended
DeriveWhileEncrypting(featureId) ==
    /\ out.op = "none"
    /\ \E t \in 1..MaxTasks : Pending(t)
    /\ calls' = calls + 1
    /\ out' = deriveFeatureAddress(featureId)
    /\ firstCall' = out'
    /\ UNCHANGED <<cryptoVars, hostVars>>

NextConcurrent ==
    \/ \E t \in 1..MaxTasks, message \in Messages :
          CallEncryptMessage(t, message)
    \/ \E t \in 1..MaxTasks :
          /\ tasks[t].at = "generateKey"
          /\ \E e \in TaskScalars : GenerateKeyResolves(t, e)
    \/ \E t \in 1..MaxTasks :
          /\ tasks[t].at = "importAesKey"
          /\ \E iv \in Nonces : AesKeyImported(t, iv)
    \/ \E t \in 1..MaxTasks : AwaitResolves(t)
    \/ /\ out.op = "none"
       /\ \E featureId \in SeqsUpTo({97, 233}, 1) :
             DeriveWhileEncrypting(featureId)

SpecConcurrent == InitConcurrent /\ [][NextConcurrent]_vars

\* the bytes AES-GCM gives back for a blob under the owner's private key
OpenedBytes(blobHex) ==
    LET blob == hex2ab(blobHex)
        key == deriveBits(importKeyRaw(Slice(blob, 0, 65)).point,
                          PrivateOf(OWNER_PUBKEY))
    IN  AesGcmDecrypt(key, Slice(blob, 65, 77), Slice(blob, 77, Len(blob)))

\* C11: however the steps of several encryptMessage calls and
\* deriveFeatureAddress calls interleave, a call that returns has returned
\* the blob it returns when run alone with the same message and the same
\* random draws, that blob opens under the owner's key to the bytes of the
\* call's own message, and a derived address is the one a lone call gives.
C11_CallsIndependent ==
    /\ \A t \in 1..MaxTasks :
          tasks[t].at = "returned" =>
             /\ tasks[t].result =
                   encryptMessage(OWNER_PUBKEY, tasks[t].message,
                                  tasks[t].ephemeralPrivate, tasks[t].iv).blob
             /\ OpenedBytes(tasks[t].result) =
                   [ok |-> TRUE, data |-> TextEncode(tasks[t].message)]
    /\ out.op = "deriveFeatureAddress" =>
          out = deriveFeatureAddress(out.featureId)

C11_Witness ==
    /\ tasks[1].at = "returned" /\ tasks[2].at = "returned"
    /\ tasks[1].message # tasks[2].message
    /\ tasks[1].ephemeralPrivate # tasks[2].ephemeralPrivate
    /\ tasks[1].iv # tasks[2].iv
    /\ out.op = "deriveFeatureAddress"

-----------------------------------------------------------------------------
(* The contribution form (handleContribute)                                *)

\* most features shown on the page, and most handleContribute calls of a run
MaxFeatures == 2
MaxClicks == 2

\* the text of an identifier, as UTF-16 code units: "feat-00" and a digit
FeatureId(digit) == <<102, 101, 97, 116, 45, 48, 48, 48 + digit>>

\* utils/constants.ts: the features, each with the fundingAddress field of
\* its entry
FEATURES ==
    <<
      [id |-> FeatureId(1),
       fundingAddress |->
          <<"0", "x", "7", "1", "c", "7", "6", "5", "6", "e", "c", "7",
            "a", "b", "8", "8", "b", "0", "9", "8", "d", "e", "f", "b",
            "7", "5", "1", "b", "7", "4", "0", "1", "b", "5", "f", "6",
            "d", "8", "9", "7", "6", "f">>],
      [id |-> FeatureId(2),
       fundingAddress |->
          <<"0", "x", "3", "c", "4", "4", "c", "d", "d", "d", "b", "6",
            "a", "9", "0", "0", "f", "a", "2", "b", "5", "8", "5", "d",
            "d", "2", "9", "9", "e", "0", "3", "d", "1", "2", "f", "a",
            "4", "2", "9", "3", "b", "c">>],
      [id |-> FeatureId(3),
       fundingAddress |->
          <<"0", "x", "9", "0", "f", "7", "9", "b", "f", "6", "e", "b",
            "2", "c", "4", "f", "8", "7", "0", "3", "6", "5", "e", "7",
            "8", "5", "9", "8", "2", "e", "1", "f", "1", "0", "1", "e",
            "9", "3", "b", "9", "0", "6">>],
      [id |-> FeatureId(4),
       fundingAddress |->
          <<"0", "x", "1", "5", "d", "3", "4", "a", "a", "f", "5", "4",
            "2", "6", "7", "d", "b", "7", "d", "7", "c", "3", "6", "7",
            "8", "3", "9", "a", "a", "f", "7", "1", "a", "0", "0", "a",
            "2", "c", "6", "a", "6", "5">>],
      [id |-> FeatureId(5),
       fundingAddress |->
          <<"0", "x", "9", "9", "6", "5", "5", "0", "7", "d", "1", "a",
            "5", "5", "b", "c", "c", "2", "6", "9", "5", "c", "5", "8",
            "b", "a", "1", "6", "f", "b", "3", "7", "d", "8", "1", "9",
            "b", "0", "a", "4", "d", "c">>],
      [id |-> FeatureId(6),
       fundingAddress |->
          <<"0", "x", "9", "7", "6", "e", "a", "7", "4", "0", "2", "6",
            "e", "7", "2", "6", "5", "5", "4", "d", "b", "6", "5", "7",
            "f", "a", "5", "4", "7", "6", "3", "a", "b", "d", "0", "c",
            "3", "a", "0", "a", "a", "9">>],
      [id |-> FeatureId(7),
       fundingAddress |->
          <<"0", "x", "1", "4", "d", "c", "7", "9", "9", "6", "4", "d",
            "a", "2", "c", "0", "8", "b", "2", "3", "6", "9", "8", "b",
            "3", "d", "3", "c", "c", "7", "c", "a", "3", "2", "1", "9",
            "3", "d", "9", "9", "5", "5">>],
      [id |-> FeatureId(8),
       fundingAddress |->
          <<"0", "x", "2", "3", "6", "1", "8", "e", "8", "1", "e", "3",
            "f", "5", "c", "d", "f", "7", "f", "5", "4", "c", "3", "d",
            "6", "5", "f", "7", "f", "b", "c", "0", "a", "b", "f", "5",
            "b", "2", "1", "e", "8", "f">>]>>

\* index in FEATURES of the feature with an identifier, 0 when there is none
\* (FEATURES.find)
FindFeature(featureId) ==
    IF \E i \in 1..Len(FEATURES) : FEATURES[i].id = featureId
    THEN CHOOSE i \in 1..Len(FEATURES) :
            /\ FEATURES[i].id = featureId
            /\ \A j \in 1..(i - 1) : FEATURES[j].id # featureId
    ELSE 0

\* a handleContribute call: the await it is suspended at, its locals, and
\* the last status it set
NoClick ==
    [at |-> "none", feature |-> 0, fundingAddress |-> <<>>,
     currency |-> "none", currencyChain |-> 0, email |-> <<>>,
     encryption |-> "none", encryptedEmail |-> <<>>, status |-> "none"]

\* a catch block that also clears the form
ContributionFailed_clearForm(p, click, message) ==
    [page |-> [p EXCEPT !.txStatus = [type |-> "error", message |-> message],
                        !.email = <<>>, !.contributionAmount = "empty"],
     click |-> [click EXCEPT !.at = "done", !.status = "error"]]

\* the catch block of handleContribute: the call ends with an error status
ContributionFailed(p, click, message) ==
    [page |-> [p EXCEPT !.txStatus = [type |-> "error", message |-> message]],
     click |-> [click EXCEPT !.at = "done", !.status = "error"]]

\* handleContribute from the 'Contributing' log to the await of the send:
\* signer.value is read now; parseEther and parseUnits throw on an amount
\* they cannot parse, the empty string of a cleared form included
SubmitTransaction(p, click, k) ==
    IF ~p.signer \/ p.contributionAmount # "ok"
    THEN ContributionFailed(p, click, "failed")
    ELSE [page |-> [p EXCEPT
                       !.txStatus = [type |-> "info", message |-> "confirm"],
                       !.sent = Append(p.sent,
                                       [to |-> click.fundingAddress,
                                        currency |-> click.currency,
                                        currencyChain |-> click.currencyChain,
                                        chainId |-> p.chainId,
                                        by |-> k])],
          click |-> [click EXCEPT !.at = "send", !.status = "info"]]

\* handleContribute up to its first await or its return, as call k.  The page
\* of src/unnamed/part_001 sends to deriveFeatureAddress(feature.id), the page
\* of packages/app/src/App.vue to feature.fundingAddress
handleContribute(k) ==
    LET alerted == [page |-> page, click |-> [NoClick EXCEPT !.at = "alerted"]]
        i == FindFeature(page.selectedFeatureId)
    IN  IF ~page.connected \/ ~page.signer THEN alerted
        ELSE IF page.contributionAmount \in {"empty", "nan"} THEN alerted
        ELSE IF i = 0 THEN alerted
        ELSE
        LET feature == FEATURES[i]
            fundingAddress ==
                IF page.build = "part_001"
                THEN deriveFeatureAddress(feature.id).address
                ELSE feature.fundingAddress
            click == [NoClick EXCEPT !.feature = i,
                        !.fundingAddress = fundingAddress,
                        !.currency = page.currency,
                        !.currencyChain = page.chainId,
                        !.email = page.email, !.status = "info"]
            started == [page EXCEPT
                           !.txStatus = [type |-> "info", message |-> "init"]]
        IN  IF page.currency = "none"
            THEN ContributionFailed(started, click, "currency")
            ELSE IF page.email # <<>>
            THEN [page |-> [started EXCEPT !.txStatus =
                               [type |-> "info", message |-> "encrypting"]],
                  click |-> [click EXCEPT !.at = "encrypt"]]
            ELSE SubmitTransaction(started, click, k)

\* handleContribute after 'await encryptMessage(OWNER_PUBKEY, email.value)':
\* the promise resolved with the blob of the draws, or was rejected
encryptionSettled_sendAnyway(k, resolved, ephemeralPrivate, iv) ==
    LET click == clicks[k]
        sealed == encryptMessage(OWNER_PUBKEY, click.email, ephemeralPrivate, iv)
    IN  IF resolved /\ sealed.status = "ok"
        THEN SubmitTransaction(page,
                 [click EXCEPT !.encryption = "resolved",
                     !.encryptedEmail = sealed.blob], k)
        ELSE SubmitTransaction(page,
                 [click EXCEPT !.encryption = "rejected"], k)

encryptionSettled(k, resolved, ephemeralPrivate, iv) ==
    LET click == clicks[k]
        sealed == encryptMessage(OWNER_PUBKEY, click.email, ephemeralPrivate, iv)
    IN  IF resolved /\ sealed.status = "ok"
        THEN SubmitTransaction(page,
                 [click EXCEPT !.encryption = "resolved",
                     !.encryptedEmail = sealed.blob], k)
        ELSE ContributionFailed(page,
                 [click EXCEPT !.encryption = "rejected"], "encrypt")

\* handleContribute after the await of the send: the wallet returned the
\* transaction, the user rejected it, or the send failed
sendSettled(k, outcome) ==
    IF outcome = "hash"
    THEN [page |-> [page EXCEPT !.txStatus =
                       [type |-> "info", message |-> "submitted"]],
          click |-> [clicks[k] EXCEPT !.at = "wait", !.status = "info"]]
    ELSE ContributionFailed(page, clicks[k], outcome)

\* handleContribute after 'await tx.wait()': success clears the form and
\* asks for the totals again
waitSettled(k, mined) ==
    IF mined
    THEN [page |-> [page EXCEPT
                       !.txStatus = [type |-> "success", message |-> "done"],
                       !.email = <<>>, !.contributionAmount = "empty",
                       !.refetches = page.refetches + 1],
          click |-> [clicks[k] EXCEPT !.at = "done", !.status = "success"]]
    ELSE ContributionFailed(page, clicks[k], "failed")

\* a chain with no entry in SUPPORTED_TOKENS: availableCurrencies is empty
\* and no currency is found
UnsupportedChain == 5

\* the e-mail addresses the visitor types
Emails == {<<>>, <<97>>}

\* the ephemeral scalars generateKey draws while the form is used (the blob
\* is only logged)
FormScalars == {1}

InitContribute ==
    /\ BalancesIdle
    /\ DeriverIdle
    /\ lenientImport = FALSE
    /\ enc = NoEncrypt
    /\ prevEnc = NoEncrypt
    /\ wire = <<>>
    /\ dec = NoDecrypt
    /\ tasks = <<>>
    /\ TotalsIdle /\ WalletIdle
    /\ \E build \in {"part_001", "App.vue"}, currency \in {"native", "token", "none"},
          amount \in {"ok", "unparseable", "nan"}, connected \in BOOLEAN,
          email \in Emails :
          page = [build |-> build, connected |-> connected,
                  signer |-> connected,
                  chainId |-> IF currency = "none" THEN UnsupportedChain
                              ELSE 1,
                  contributionAmount |-> amount,
                  selectedFeatureId |-> FEATURES[1].id, email |-> email,
                  currency |-> currency,
                  txStatus |-> [type |-> "none", message |-> "none"],
                  sent |-> <<>>, refetches |-> 0]
    /\ clicks = [k \in 1..MaxClicks |-> NoClick]

\* the visitor picks a feature
HandleSelectFeature(i) ==
    /\ page.selectedFeatureId # FEATURES[i].id
    /\ page' = [page EXCEPT !.selectedFeatureId = FEATURES[i].id]
    /\ UNCHANGED <<deriveVars, cryptoVars, tasks, clicks, totals, wallet, userBalances>>

\* the wallet connection is cleared (useWallet: clearWalletState)
WalletCleared ==
    /\ page.connected
    /\ page' = [page EXCEPT !.connected = FALSE, !.signer = FALSE]
    /\ UNCHANGED <<deriveVars, cryptoVars, tasks, clicks, totals, wallet, userBalances>>

\* the visitor presses the button: call k of handleContribute starts
HandleContribute(k) ==
    /\ clicks[k].at = "none"
    /\ k > 1 => clicks[k - 1].at # "none"
    /\ page' = handleContribute(k).page
    /\ clicks' = [clicks EXCEPT ![k] = handleContribute(k).click]
    /\ UNCHANGED <<deriveVars, cryptoVars, tasks, totals, wallet, userBalances>>

EncryptionSettles(k, resolved, ephemeralPrivate, iv) ==
    /\ clicks[k].at = "encrypt"
    /\ page' = encryptionSettled(k, resolved, ephemeralPrivate, iv).page
    /\ clicks' = [clicks EXCEPT
                     ![k] = encryptionSettled(k, resolved,
                                              ephemeralPrivate, iv).click]
    /\ UNCHANGED <<deriveVars, cryptoVars, tasks, totals, wallet, userBalances>>

SendSettles(k, outcome) ==
    /\ clicks[k].at = "send"
    /\ page' = sendSettled(k, outcome).page
    /\ clicks' = [clicks EXCEPT ![k] = sendSettled(k, outcome).click]
    /\ UNCHANGED <<deriveVars, cryptoVars, tasks, totals, wallet, userBalances>>

WaitSettles(k, mined) ==
    /\ clicks[k].at = "wait"
    /\ page' = waitSettled(k, mined).page
    /\ clicks' = [clicks EXCEPT ![k] = waitSettled(k, mined).click]
    /\ UNCHANGED <<deriveVars, cryptoVars, tasks, totals, wallet, userBalances>>

NextContribute ==
    \/ \E i \in 1..MaxFeatures : HandleSelectFeature(i)
    \/ WalletCleared
    \/ \E k \in 1..MaxClicks : HandleContribute(k)
    \/ \E k \in 1..MaxClicks :
          /\ clicks[k].at = "encrypt"
          /\ \/ EncryptionSettles(k, FALSE, 0, <<>>)
             \/ \E e \in FormScalars, iv \in Nonces :
                   EncryptionSettles(k, TRUE, e, iv)
    \/ \E k \in 1..MaxClicks, outcome \in {"hash", "rejected", "failed"} :
          SendSettles(k, outcome)
    \/ \E k \in 1..MaxClicks, mined \in BOOLEAN : WaitSettles(k, mined)

SpecContribute == InitContribute /\ [][NextContribute]_vars

\* C12: every transaction handleContribute hands to the wallet, a native
\* send or a token transfer, goes to the address the deriver gives for the
\* identifier of the feature that was selected when the button was pressed,
\* the address fetchFeatureTotals reads that feature's balances from.
C12_RecipientIsDerived ==
    \A n \in 1..Len(page.sent) :
        page.sent[n].to =
            deriveFeatureAddress(FEATURES[clicks[page.sent[n].by].feature].id).address

\* C13: a handleContribute call that read an e-mail address hands its
\* transaction to the wallet only after its encryptMessage call resolved;
\* when that call is rejected, the call submits nothing and sets an error
\* status, which is the status shown when no other call runs.
C13_EncryptBeforeSend ==
    /\ \A n \in 1..Len(page.sent) :
          LET click == clicks[page.sent[n].by]
          IN  click.email # <<>> =>
                 /\ click.encryption = "resolved"
                 /\ OpenedBytes(click.encryptedEmail) =
                       [ok |-> TRUE, data |-> TextEncode(click.email)]
    /\ \A k \in 1..MaxClicks :
          clicks[k].encryption = "rejected" =>
             /\ \A n \in 1..Len(page.sent) : page.sent[n].by # k
             /\ clicks[k].at = "done" /\ clicks[k].status = "error"
             /\ (\A j \in 1..MaxClicks : j # k => clicks[j].at = "none")
                   => page.txStatus.type = "error"

C13_Witness ==
    /\ clicks[1].encryption = "rejected" /\ clicks[1].at = "done"
    /\ clicks[2].encryption = "resolved" /\ clicks[2].at = "wait"
    /\ Len(page.sent) = 1

-----------------------------------------------------------------------------
(* Truncated and malformed blobs                                           *)

\* the compressed form of a point, in hex: 0x02 or 0x03 by the parity of Y,
\* then X
CompressedHex(point) ==
    ab2hex(<<2 + (point.y % 2)>> \o Bytes32(point.x))

\* blobs that are a compressed ephemeral public key and nothing else
CompressedKeyBlobs ==
    {CompressedHex(generatedPublicKey(e)) : e \in PrivateScalars}

\* crypto-utils.mjs decrypt <jwk> <blob> with the owner's key, on the first
\* bytes of a blob
CliDecryptTruncated(bytes) ==
    /\ enc.status = "ok"
    /\ dec.op = "none"
    /\ bytes < Len(enc.blob) \div 2
    /\ wire' = SubSeq(enc.blob, 1, 2 * bytes)
    /\ dec' = mainDecrypt(PrivateOf(enc.ownerPubKeyHex), wire')
    /\ UNCHANGED <<deriveVars, lenientImport, enc, prevEnc, hostVars>>

\* crypto-utils.mjs decrypt <jwk> <blob> with the owner's key, on a blob
\* that was not produced by encrypt
CliDecryptMalformed(blob) ==
    /\ enc.status = "ok"
    /\ dec.op = "none"
    /\ wire' = blob
    /\ dec' = mainDecrypt(PrivateOf(enc.ownerPubKeyHex), wire')
    /\ UNCHANGED <<deriveVars, lenientImport, enc, prevEnc, hostVars>>

\* one encryption by the app and one decryption of a cut or foreign blob
NextTruncate ==
    \/ /\ enc.op = "none"
       /\ \E message \in Messages, e \in PrivateScalars, iv \in Nonces :
             EncryptMessage(message, e, iv)
    \/ /\ dec.op = "none"
       /\ \E bytes \in 1..(Len(enc.blob) \div 2) : CliDecryptTruncated(bytes)
    \/ /\ dec.op = "none"
       /\ \E blob \in CompressedKeyBlobs : CliDecryptMalformed(blob)

SpecTruncate == InitCrypto /\ [][NextTruncate]_vars

-----------------------------------------------------------------------------
(* Malformed hexadecimal input                                             *)

\* hex arguments as a caller may type them: as they are, with one digit too
\* many, followed by two characters that are no digits, or with the second
\* digit replaced by such a character
HexDamages == {"none", "odd", "junk", "digit"}
Damaged(hex, damage) ==
    CASE damage = "odd" -> hex \o <<"0">>
      [] damage = "junk" -> hex \o <<"z", "z">>
      [] damage = "digit" -> [hex EXCEPT ![2] = "z"]
      [] OTHER -> hex

\* two digits per byte and nothing else
WellFormedHex(hex) ==
    Len(hex) % 2 = 0 /\ \A i \in 1..Len(hex) : IsHexChar(hex[i])

\* the app seals a message for a key typed with a damage
EncryptMessageHex(pubKey, damage, message, ephemeralPrivate, iv) ==
    /\ enc.op = "none"
    /\ enc' = encryptMessage(Damaged(pubKey, damage), message,
                             ephemeralPrivate, iv)
    /\ UNCHANGED <<deriveVars, lenientImport, prevEnc, wire, dec, hostVars>>

\* crypto-utils.mjs encrypt <ownerPubKeyHex> <message>, the key typed with a
\* damage
CliEncryptHex(pubKey, damage, message, ephemeralPrivate, iv) ==
    /\ enc.op = "none"
    /\ enc' = mainEncrypt(Damaged(pubKey, damage), message,
                          ephemeralPrivate, iv)
    /\ UNCHANGED <<deriveVars, lenientImport, prevEnc, wire, dec, hostVars>>

\* crypto-utils.mjs decrypt <jwk> <blob>, the blob typed with a damage, with
\* the private key of the key the blob was sealed for
CliDecryptHex(privateScalar, damage) ==
    /\ enc.status = "ok"
    /\ dec.op = "none"
    /\ enc.op = "encrypt" =>
          toRawBytes(generatedPublicKey(privateScalar))
              = hex2ab(enc.ownerPubKeyHex)
    /\ enc.op = "encryptMessage" =>
          toRawBytes(generatedPublicKey(privateScalar))
              = appHex2ab(enc.ownerPubKeyHex)
    /\ wire' = Damaged(enc.blob, damage)
    /\ dec' = mainDecrypt(privateScalar, wire')
    /\ UNCHANGED <<deriveVars, lenientImport, enc, prevEnc, hostVars>>

HexMessages == {<<97>>}
HexScalars == {1, 2}

NextHex ==
    \/ /\ enc.op = "none"
       /\ \E pubKey \in RecipientKeys, damage \in HexDamages,
             message \in HexMessages, e \in HexScalars, iv \in Nonces :
             EncryptMessageHex(pubKey, damage, message, e, iv)
    \/ /\ enc.op = "none"
       /\ \E pubKey \in RecipientKeys, damage \in HexDamages,
             message \in HexMessages, e \in HexScalars, iv \in Nonces :
             CliEncryptHex(pubKey, damage, message, e, iv)
    \/ /\ dec.op = "none"
       /\ enc.status = "ok"
       /\ \E d \in PrivateScalars, damage \in HexDamages :
             CliDecryptHex(d, damage)

SpecHex == InitCrypto /\ [][NextHex]_vars

\* C15: a public key or a blob that is not well-formed hex (a character
\* that is no hex digit, or an odd number of digits) is rejected: encrypt
\* gives no blob for such a key and decrypt prints no message for such a
\* blob.
C15_MalformedHexRejected ==
    /\ (enc.op # "none" /\ ~WellFormedHex(enc.ownerPubKeyHex)) =>
          enc.status # "ok"
    /\ (DecryptRan /\ ~WellFormedHex(wire)) =>
          (dec.error # "none" /\ ~dec.printed)

-----------------------------------------------------------------------------
(* Recipient keys that are not a point                                     *)

\* the SEC1 forms of a point: uncompressed, compressed and hybrid
HybridBytes(point) ==
    <<6 + (point.y % 2)>> \o Bytes32(point.x) \o Bytes32(point.y)
CompressedBytes(point) == <<2 + (point.y % 2)>> \o Bytes32(point.x)
PointEncodings(point) ==
    {toRawBytes(point), CompressedBytes(point), HybridBytes(point)}

\* the byte strings that encode a point of P-256 in one of the SEC1 forms
ValidPointEncoding(bytes) ==
    \E d \in PrivateScalars : bytes \in PointEncodings(generatedPublicKey(d))

\* the byte strings that are the 65-byte uncompressed form of a point
UncompressedEncoding(bytes) ==
    \E d \in PrivateScalars : bytes = toRawBytes(generatedPublicKey(d))

\* recipient keys as a caller may pass them: the forms of a point, and a
\* key with another format byte, with a byte missing, with a byte too many,
\* with Y moved off the curve, and with X beyond the field
KeyInputs ==
    UNION {LET point == generatedPublicKey(d)
               raw == toRawBytes(point)
           IN  PointEncodings(point)
                 \cup {[raw EXCEPT ![1] = b] : b \in {0, 2, 3, 5, 6, 7}}
                 \cup {SubSeq(raw, 1, 64), raw \o <<0>>,
                       SubSeq(raw, 1, 32), <<4>>}
                 \cup {[raw EXCEPT ![65] = (point.y + 1) % P256.p],
                       [raw EXCEPT ![33] = point.x + P256.p],
                       [CompressedBytes(point) EXCEPT ![33] = point.x + 1]}
           : d \in PrivateScalars}

\* the app seals a message for a key given by its caller
EncryptMessageFor(pubKeyBytes, message, ephemeralPrivate, iv) ==
    /\ enc.op = "none"
    /\ enc' = encryptMessage(ab2hex(pubKeyBytes), message,
                             ephemeralPrivate, iv)
    /\ UNCHANGED <<deriveVars, lenientImport, prevEnc, wire, dec, hostVars>>

\* crypto-utils.mjs encrypt <ownerPubKeyHex> <message>
CliEncryptFor(pubKeyBytes, message, ephemeralPrivate, iv) ==
    /\ enc.op = "none"
    /\ enc' = mainEncrypt(ab2hex(pubKeyBytes), message, ephemeralPrivate, iv)
    /\ UNCHANGED <<deriveVars, lenientImport, prevEnc, wire, dec, hostVars>>

NextKeys ==
    \/ /\ enc.op = "none"
       /\ \E key \in KeyInputs, message \in HexMessages, e \in HexScalars,
             iv \in Nonces : EncryptMessageFor(key, message, e, iv)
    \/ /\ enc.op = "none"
       /\ \E key \in KeyInputs, message \in HexMessages, e \in HexScalars,
             iv \in Nonces : CliEncryptFor(key, message, e, iv)

SpecKeys == InitCrypto /\ [][NextKeys]_vars

\* the bytes the encryptor imported
ImportedKeyBytes ==
    IF enc.op = "encrypt" THEN hex2ab(enc.ownerPubKeyHex)
    ELSE appHex2ab(enc.ownerPubKeyHex)

-----------------------------------------------------------------------------
(* The empty identifier                                                    *)

\* a derivation that succeeded: a scalar of the group and an address of
\* '0x' and 40 hex digits
DerivedWell(call) ==
    /\ call.status = "ok"
    /\ call.scalar \in 1..(SECP256K1_ORDER - 1)
    /\ Len(call.address) = 42
    /\ call.address[1] = "0" /\ call.address[2] = "x"
    /\ \A i \in 3..42 : IsHexChar(call.address[i])

\* C17 as stated: deriving with the empty identifier succeeds and gives a
\* nonzero scalar and an address, through deriveFeatureAddress in the app
\* and through the derive command of the CLI given a private key.
C17_EmptyIdentifierAccepted ==
    /\ (out.op = "deriveFeatureAddress" /\ out.featureId = <<>>) =>
          DerivedWell(out)
    /\ (out.op = "derive" /\ out.featureId = <<>>
          /\ IsBigIntHex(normalizeHex(out.ownerPrivateKeyHex))) =>
          DerivedWell(out)

\* C17 as it holds: deriveFeatureAddress succeeds on the empty identifier
\* with a nonzero scalar and an address, and so would derive(featureId,
\* privateKey); the derive command of the CLI never calls it with an empty
\* featureId: main prints the usage line and derives nothing.
C17_EmptyIdentifierAcceptedByFunctions ==
    /\ (out.op = "deriveFeatureAddress" /\ out.featureId = <<>>) =>
          DerivedWell(out)
    /\ (out.op = "derive" /\ out.featureId = <<>>) =>
          /\ out.status = "usage"
          /\ out.address = <<>> /\ out.derivedHex = <<>>
          /\ IsBigIntHex(normalizeHex(out.ownerPrivateKeyHex)) =>
                DerivedWell(derive(<<>>, out.ownerPrivateKeyHex))

C17_Witness ==
    /\ out.op = "deriveFeatureAddress" /\ out.featureId = <<>>
    /\ DerivedWell(out)
    /\ firstCall.op = "deriveFeatureAddress" /\ firstCall.featureId # <<>>

-----------------------------------------------------------------------------
(* Feature totals                                                          *)

\* null, for a price and for a total
Null == -1

\* what the price API may answer, in USD per ETH
EthPrices == {2, 3}

\* the features, networks and tokens that are summed: one feature, two of
\* the networks, and on each its native coin and its stable-USD token
TotalsFeatures == {FEATURES[1].id}
TotalsNetworks == {1, 137}
SUPPORTED_TOKENS == [chainId \in TotalsNetworks |-> {"native", "stableUsd"}]
BalanceFetches ==
    {[feature |-> f, chainId |-> c, token |-> t] :
        f \in TotalsFeatures, c \in TotalsNetworks, t \in {"native", "stableUsd"}}

\* balances on the chains, in whole coins: any amount of the native coin,
\* one stable-USD token
Amounts == {0, 1}
ChainBalances ==
    {balances \in [BalanceFetches -> Amounts] :
        \A x \in BalanceFetches : x.token = "stableUsd" => balances[x] = 1}

\* how many fetchFeatureTotals calls may be in flight
MaxFetchCalls == 2

NoFetchCall ==
    [at |-> "idle", price |-> Null,
     totalUsd |-> [f \in TotalsFeatures |-> 0],
     missingEthUsd |-> [f \in TotalsFeatures |-> FALSE],
     pending |-> {}, succeeded |-> {},
     reported |-> [f \in TotalsFeatures |-> 0]]

RECURSIVE SumOf(_, _)
SumOf(S, amounts) ==
    IF S = {} THEN 0
    ELSE LET x == CHOOSE y \in S : TRUE
         IN  amounts[x] + SumOf(S \ {x}, amounts)

\* the body of tokens.map(async (token) => ...) after its await, for a
\* fetch that resolved (ok) or was rejected and caught
balanceSettled(t, call, fetch, ok) ==
    LET f == fetch.feature
        amount == t.balances[fetch]
    IN  IF ~ok THEN call
        ELSE IF fetch.token = "native"
        THEN IF t.ethUsdPrice # Null
             THEN [call EXCEPT !.totalUsd[f] = @ + amount * t.ethUsdPrice,
                               !.succeeded = @ \cup {fetch}]
             ELSE IF amount > 0
             THEN [call EXCEPT !.missingEthUsd[f] = TRUE,
                               !.succeeded = @ \cup {fetch}]
             ELSE [call EXCEPT !.succeeded = @ \cup {fetch}]
        ELSE [call EXCEPT !.totalUsd[f] = @ + amount,
                          !.succeeded = @ \cup {fetch}]

\* what a call stores for its features once all its fetches have settled
totalsByFeature(call) ==
    [f \in TotalsFeatures |->
        IF call.missingEthUsd[f] THEN Null ELSE call.totalUsd[f]]

InitTotals ==
    /\ BalancesIdle
    /\ DeriverIdle
    /\ lenientImport = FALSE
    /\ enc = NoEncrypt
    /\ prevEnc = NoEncrypt
    /\ wire = <<>>
    /\ dec = NoDecrypt
    /\ tasks = <<>>
    /\ PageIdle /\ WalletIdle
    /\ \E balances \in ChainBalances :
          totals = [ethUsdPrice |-> Null,
                    loadingFeatureTotals |-> FALSE,
                    featureTotals |-> <<>>,
                    balances |-> balances,
                    runs |-> [r \in 1..MaxFetchCalls |-> NoFetchCall]]

\* fetchFeatureTotals is called, at mount or after a contribution: runs to
\* await fetchEthUsdPrice()
FetchFeatureTotals(r) ==
    /\ totals.runs[r].at = "idle"
    /\ \A q \in 1..(r - 1) : totals.runs[q].at # "idle"
    /\ totals' = [totals EXCEPT !.loadingFeatureTotals = TRUE,
                                !.runs[r].at = "price"]
    /\ UNCHANGED <<deriveVars, cryptoVars, tasks, pageVars, wallet, userBalances>>

\* fetchEthUsdPrice settles, with a price or with an error (Null); the call
\* goes on to start every balance fetch
EthPriceSettles(r, price) ==
    /\ totals.runs[r].at = "price"
    /\ totals' = [totals EXCEPT !.ethUsdPrice = price,
                                !.runs[r].at = "balances",
                                !.runs[r].price = price,
                                !.runs[r].pending = BalanceFetches]
    /\ UNCHANGED <<deriveVars, cryptoVars, tasks, pageVars, wallet, userBalances>>

\* one balance fetch of a call settles; with the last one the call stores
\* its totals
BalanceSettles(r, fetch, ok) ==
    /\ totals.runs[r].at = "balances"
    /\ fetch \in totals.runs[r].pending
    /\ LET call == balanceSettled(totals, totals.runs[r], fetch, ok)
           left == call.pending \ {fetch}
       IN  IF left # {}
           THEN totals' = [totals EXCEPT !.runs[r] =
                              [call EXCEPT !.pending = left]]
           ELSE totals' =
                  [totals EXCEPT
                      !.featureTotals = totalsByFeature(call),
                      !.loadingFeatureTotals = FALSE,
                      !.runs[r] = [call EXCEPT !.pending = {},
                                      !.at = "done",
                                      !.reported = totalsByFeature(call)]]
    /\ UNCHANGED <<deriveVars, cryptoVars, tasks, pageVars, wallet, userBalances>>

NextTotals ==
    \/ \E r \in 1..MaxFetchCalls : FetchFeatureTotals(r)
    \/ \E r \in 1..MaxFetchCalls, price \in EthPrices \cup {Null} :
          EthPriceSettles(r, price)
    \/ \E r \in 1..MaxFetchCalls, fetch \in BalanceFetches, ok \in BOOLEAN :
          BalanceSettles(r, fetch, ok)

SpecTotals == InitTotals /\ [][NextTotals]_vars

\* the sum the call should report for a feature, given the price its own
\* fetchEthUsdPrice gave and the fetches that succeeded
ExpectedTotalUsd(call, f) ==
    LET natives == {x \in call.succeeded :
                       x.feature = f /\ x.token = "native"}
        stables == {x \in call.succeeded :
                       x.feature = f /\ x.token = "stableUsd"}
    IN  IF call.price = Null /\ \E x \in natives : totals.balances[x] > 0
        THEN Null
        ELSE (IF call.price = Null THEN 0
              ELSE call.price * SumOf(natives, totals.balances))
             + SumOf(stables, totals.balances)

\* C18: a finished fetchFeatureTotals call reports, for each feature, the
\* sum over the fetches that succeeded of the native balances times the
\* ETH/USD price plus the stable-USD balances, whatever the order in which
\* the fetches settled, and null exactly when the price is unavailable and
\* a native balance is positive.
C18_TotalsAreSums ==
    \A r \in 1..MaxFetchCalls :
        totals.runs[r].at = "done" =>
            \A f \in TotalsFeatures :
                totals.runs[r].reported[f]
                    = ExpectedTotalUsd(totals.runs[r], f)

\* the same of a call that no other call overlapped
C18_TotalsAreSumsOfLoneCall ==
    \A r \in 1..MaxFetchCalls :
        (totals.runs[r].at = "done"
            /\ \A q \in 1..MaxFetchCalls :
                  q # r => totals.runs[q].at = "idle") =>
            \A f \in TotalsFeatures :
                totals.runs[r].reported[f]
                    = ExpectedTotalUsd(totals.runs[r], f)

-----------------------------------------------------------------------------
(* The wallet composable                                                   *)

\* wallet providers announced to the page, accounts and chains; 0 stands
\* for null in every field below
WalletProviders == {1, 2}
Accounts == {1}
ChainIds == {1, 137}

\* how many connect / checkExistingConnection calls are made
MaxWalletCalls == 2

NoWalletCall == [kind |-> "none", at |-> "idle", walletProvider |-> 0,
                 account |-> 0, ended |-> "no"]

\* module state of useWallet.ts; listeners counts, per provider, the
\* registrations of the three handlers; signerPromises holds the providers
\* with a getSigner().then(s => signer.value = s) of a handler pending;
\* sinceClear tells that the state was cleared and no connect or
\* checkExistingConnection call was made since; staleEvent tells that a
\* handler ran for an event of a provider other than currentProvider
NoWallet ==
    [address |-> 0, chainId |-> 0, connected |-> FALSE, connecting |-> FALSE,
     provider |-> 0, signer |-> 0, rawProvider |-> 0, currentProvider |-> 0,
     listeners |-> [p \in WalletProviders |-> 0],
     signerPromises |-> {},
     setups |-> [c \in 1..MaxWalletCalls |-> NoWalletCall],
     sinceClear |-> FALSE, staleEvent |-> FALSE]

removeEventListeners(w, walletProvider) ==
    [w EXCEPT !.listeners[walletProvider] = IF @ > 0 THEN @ - 1 ELSE 0]

setupEventListeners(w, walletProvider) ==
    [w EXCEPT !.listeners[walletProvider] = @ + 1]

clearWalletState(w) ==
    LET removed == IF w.currentProvider # 0
                   THEN removeEventListeners(w, w.currentProvider) ELSE w
    IN  [removed EXCEPT !.currentProvider = 0,
                        !.address = 0, !.chainId = 0, !.connected = FALSE,
                        !.provider = 0, !.signer = 0, !.rawProvider = 0,
                        !.sinceClear = TRUE]

\* account 0 is the empty account list
handleAccountsChanged(w, account) ==
    IF account = 0 THEN clearWalletState(w)
    ELSE [w EXCEPT !.address = account,
                   !.signerPromises =
                       IF w.provider # 0 THEN @ \cup {w.provider} ELSE @]

handleChainChanged(w, chain) ==
    IF w.currentProvider # 0
    THEN [w EXCEPT !.chainId = chain, !.provider = w.currentProvider,
                   !.signerPromises = @ \cup {w.currentProvider}]
    ELSE [w EXCEPT !.chainId = chain]

handleDisconnect(w) == clearWalletState(w)

\* setupWalletState up to  await ethersProvider.getSigner()
setupWalletState(w, walletProvider, account, chain) ==
    [w EXCEPT !.currentProvider = walletProvider,
              !.address = account, !.chainId = chain, !.connected = TRUE,
              !.provider = walletProvider]

\* setupWalletState after  await ethersProvider.getSigner()
setupWalletStateResumed(w, walletProvider) ==
    setupEventListeners([w EXCEPT !.signer = walletProvider,
                                  !.rawProvider = walletProvider],
                        walletProvider)

\* a call that ends without the finally block of connect
callEnded_noFinally(w, c) ==
    [w EXCEPT !.setups[c].at = "done", !.setups[c].ended = w.setups[c].at]

\* a connect or checkExistingConnection call that ended, by returning or
\* throwing; ended keeps the await it ended at
callEnded(w, c) ==
    [w EXCEPT !.setups[c].at = "done", !.setups[c].ended = w.setups[c].at,
              !.connecting = IF w.setups[c].kind = "connect" THEN FALSE ELSE @]

InitWallet ==
    /\ BalancesIdle
    /\ DeriverIdle
    /\ lenientImport = FALSE
    /\ enc = NoEncrypt
    /\ prevEnc = NoEncrypt
    /\ wire = <<>>
    /\ dec = NoDecrypt
    /\ tasks = <<>>
    /\ PageIdle /\ TotalsIdle
    /\ wallet = NoWallet

walletOnly == <<deriveVars, cryptoVars, tasks, pageVars, totals, userBalances>>

\* connect(rdns) or checkExistingConnection() is called and runs to its
\* first await, the accounts request to the provider, or ends at once when
\* there is no provider (0).  connect is called by
\* the Connect button, which is rendered while connected is false and
\* disabled while connecting is true; checkExistingConnection by onMounted
CallConnect(c, kind, walletProvider) ==
    /\ wallet.setups[c].at = "idle"
    /\ \A q \in 1..(c - 1) : wallet.setups[q].at # "idle"
    /\ kind = "connect" => (~wallet.connected /\ ~wallet.connecting)
    /\ wallet' =
          IF walletProvider = 0
          THEN [wallet EXCEPT
                   !.setups[c] = [NoWalletCall EXCEPT !.kind = kind,
                                     !.at = "done", !.ended = "provider"],
                   !.sinceClear = FALSE]
          ELSE [wallet EXCEPT
                   !.setups[c] = [NoWalletCall EXCEPT !.kind = kind,
                                     !.at = "accounts",
                                     !.walletProvider = walletProvider],
                   !.connecting = IF kind = "connect" THEN TRUE ELSE @,
                   !.sinceClear = FALSE]
    /\ UNCHANGED walletOnly

\* the accounts request settles: rejected or with no account (account 0)
\* the call ends, else it asks for the chain id
AccountsAnswered(c, account) ==
    /\ wallet.setups[c].at = "accounts"
    /\ wallet' = IF account = 0 THEN callEnded(wallet, c)
                 ELSE [wallet EXCEPT !.setups[c].at = "chainId",
                                     !.setups[c].account = account]
    /\ UNCHANGED walletOnly

\* the chain id request settles: rejected (chain 0) the call ends, else
\* setupWalletState runs to its await
ChainIdAnswered(c, chain) ==
    /\ wallet.setups[c].at = "chainId"
    /\ wallet' =
          IF chain = 0 THEN callEnded(wallet, c)
          ELSE [setupWalletState(wallet, wallet.setups[c].walletProvider,
                                 wallet.setups[c].account, chain)
                    EXCEPT !.setups[c].at = "getSigner"]
    /\ UNCHANGED walletOnly

\* getSigner() of setupWalletState settles
SetupSignerSettles(c, resolved) ==
    /\ wallet.setups[c].at = "getSigner"
    /\ wallet' =
          IF resolved
          THEN [callEnded(setupWalletStateResumed(
                              wallet, wallet.setups[c].walletProvider), c)
                    EXCEPT !.setups[c].ended = "returned"]
          ELSE callEnded(wallet, c)
    /\ UNCHANGED walletOnly

\* disconnect() is called
Disconnect ==
    /\ wallet.connected \/ wallet.currentProvider # 0
    /\ wallet' = clearWalletState(wallet)
    /\ UNCHANGED walletOnly

\* a provider emits an event; every handler registered on it runs
Emitted(w, walletProvider) ==
    [w EXCEPT !.staleEvent = @ \/ walletProvider # wallet.currentProvider]

EmitAccountsChanged(walletProvider, account) ==
    /\ wallet.listeners[walletProvider] > 0
    /\ wallet' = Emitted(handleAccountsChanged(wallet, account),
                         walletProvider)
    /\ UNCHANGED walletOnly

EmitChainChanged(walletProvider, chain) ==
    /\ wallet.listeners[walletProvider] > 0
    /\ wallet' = Emitted(handleChainChanged(wallet, chain), walletProvider)
    /\ UNCHANGED walletOnly

EmitDisconnect(walletProvider) ==
    /\ wallet.listeners[walletProvider] > 0
    /\ wallet' = Emitted(handleDisconnect(wallet), walletProvider)
    /\ UNCHANGED walletOnly

\* a getSigner() promise of a handler settles
HandlerSignerSettles(walletProvider, resolved) ==
    /\ walletProvider \in wallet.signerPromises
    /\ wallet' = [wallet EXCEPT
                     !.signerPromises = @ \ {walletProvider},
                     !.signer = IF resolved THEN walletProvider ELSE @]
    /\ UNCHANGED walletOnly

NextWallet ==
    \/ \E c \in 1..MaxWalletCalls, kind \in {"connect", "check"},
          p \in WalletProviders \cup {0} : CallConnect(c, kind, p)
    \/ \E c \in 1..MaxWalletCalls, account \in Accounts \cup {0} :
          AccountsAnswered(c, account)
    \/ \E c \in 1..MaxWalletCalls, chain \in ChainIds \cup {0} :
          ChainIdAnswered(c, chain)
    \/ \E c \in 1..MaxWalletCalls, resolved \in BOOLEAN :
          SetupSignerSettles(c, resolved)
    \/ Disconnect
    \/ \E p \in WalletProviders, account \in Accounts \cup {0} :
          EmitAccountsChanged(p, account)
    \/ \E p \in WalletProviders, chain \in ChainIds :
          EmitChainChanged(p, chain)
    \/ \E p \in WalletProviders : EmitDisconnect(p)
    \/ \E p \in WalletProviders, resolved \in BOOLEAN :
          HandlerSignerSettles(p, resolved)

SpecWallet == InitWallet /\ [][NextWallet]_vars

StateCleared ==
    /\ ~wallet.connected
    /\ wallet.address = 0 /\ wallet.chainId = 0 /\ wallet.provider = 0
    /\ wallet.signer = 0 /\ wallet.rawProvider = 0

\* C19: once the wallet state was cleared (by disconnect(), by an empty
\* accountsChanged or by a disconnect event) it stays cleared, connected
\* false and every field null, until connect or checkExistingConnection is
\* called again, whatever promise resolves in between.
C19_StaysCleared == wallet.sinceClear => StateCleared

\* C20: the handlers are registered at most once and only on the current
\* provider, on no provider after disconnect, and no handler ever runs for
\* an event of a provider that is not the current one.
C20_ListenersOnCurrentOnly ==
    /\ \A p \in WalletProviders :
          /\ wallet.listeners[p] <= 1
          /\ wallet.listeners[p] > 0 => p = wallet.currentProvider
    /\ ~wallet.staleEvent

-----------------------------------------------------------------------------
(* A chain change during a contribution                                    *)

\* the chains of SUPPORTED_TOKENS the wallet may switch between; their
\* native coins (ETH, POL) and their USDC contracts differ
FormChains == {1, 137}

\* a connected visitor on chain 1 with a valid amount
InitChain ==
    /\ BalancesIdle
    /\ DeriverIdle
    /\ lenientImport = FALSE
    /\ enc = NoEncrypt
    /\ prevEnc = NoEncrypt
    /\ wire = <<>>
    /\ dec = NoDecrypt
    /\ tasks = <<>>
    /\ TotalsIdle /\ WalletIdle
    /\ \E currency \in {"native", "token"}, email \in Emails :
          page = [build |-> "part_001", connected |-> TRUE, signer |-> TRUE,
                  chainId |-> 1, contributionAmount |-> "ok",
                  selectedFeatureId |-> FEATURES[1].id, email |-> email,
                  currency |-> currency,
                  txStatus |-> [type |-> "none", message |-> "none"],
                  sent |-> <<>>, refetches |-> 0]
    /\ clicks = [k \in 1..MaxClicks |-> NoClick]

\* the wallet emits chainChanged: handleChainChanged sets chainId (the
\* signer stays in place until the new getSigner() resolves), and the watch
\* on availableCurrencies keeps a selected symbol that the new chain also
\* has (USDC) and otherwise selects the chain's first currency, its native
\* coin
ChainChanged(chain) ==
    /\ page.connected
    /\ page.chainId # chain
    /\ page' = [page EXCEPT !.chainId = chain,
                            !.currency = IF @ = "token" THEN "token"
                                         ELSE "native"]
    /\ UNCHANGED <<deriveVars, cryptoVars, tasks, clicks, totals, wallet, userBalances>>

\* the visitor edits the form after a contribution cleared it
EditForm(email) ==
    /\ page.contributionAmount = "empty"
    /\ page' = [page EXCEPT !.contributionAmount = "ok", !.email = email]
    /\ UNCHANGED <<deriveVars, cryptoVars, tasks, clicks, totals, wallet, userBalances>>

NextChain ==
    \/ \E chain \in FormChains : ChainChanged(chain)
    \/ \E email \in Emails : EditForm(email)
    \/ \E k \in 1..MaxClicks : HandleContribute(k)
    \/ \E k \in 1..MaxClicks :
          /\ clicks[k].at = "encrypt"
          /\ \/ EncryptionSettles(k, FALSE, 0, <<>>)
             \/ \E e \in FormScalars, iv \in Nonces :
                   EncryptionSettles(k, TRUE, e, iv)
    \/ \E k \in 1..MaxClicks, outcome \in {"hash", "rejected", "failed"} :
          SendSettles(k, outcome)
    \/ \E k \in 1..MaxClicks, mined \in BOOLEAN : WaitSettles(k, mined)

SpecChain == InitChain /\ [][NextChain]_vars

\* C21: every transaction handleContribute hands to the wallet uses a
\* currency of SUPPORTED_TOKENS of the chain the wallet is on when it is
\* sent: the currency found before the await of encryptMessage is never
\* used on another chain.
C21_CurrencyOfCurrentChain ==
    \A n \in 1..Len(page.sent) :
        page.sent[n].currencyChain = page.sent[n].chainId

\* C22: whenever connected is true, address, chainId, provider and signer
\* are all set.
C22_ConnectedIsComplete ==
    wallet.connected =>
        /\ wallet.address # 0 /\ wallet.chainId # 0
        /\ wallet.provider # 0 /\ wallet.signer # 0

-----------------------------------------------------------------------------
(* Recovering the root key                                                 *)

\* C23: the root private key follows from one derived private key and its
\* identifier: for a root scalar k in [1, n-1], the derived private key
\* that derive prints, times the inverse of the identifier's scalar, is k
\* modulo n.
C23_RootRecoverable ==
    (DeriveRan(out) /\ OwnerScalarOf(out) \in 1..(SECP256K1_ORDER - 1))
    => /\ out.status = "ok"
       /\ (Hex64Value(out.derivedHex)
              * ModInv(out.scalar, SECP256K1_ORDER)) % SECP256K1_ORDER
             = OwnerScalarOf(out)

C23_Witness ==
    /\ DeriveRan(out) /\ out.status = "ok"
    /\ OwnerScalarOf(out) = 5 /\ out.scalar > 1
    /\ Hex64Value(out.derivedHex) # OwnerScalarOf(out)
    /\ (Hex64Value(out.derivedHex)
           * ModInv(out.scalar, SECP256K1_ORDER)) % SECP256K1_ORDER = 5

-----------------------------------------------------------------------------
(* The visitor's balances                                                  *)

\* the addresses balances are fetched for, and what the chains hold for
\* them, as formatEther / formatUnits print it
UserAddresses == {1, 2}
FormattedBalance(userAddress) == IF userAddress = 1 THEN "1.0" ELSE "2.0"

\* the networks of a fetch and the tokens of each, in the order of
\* SUPPORTED_TOKENS
BalanceNetworks == {1, 137}
BalanceTokens == <<"native", "USDC">>

\* how many fetchBalances calls are made
MaxBalanceCalls == 2

\* one fetchBalances call: newBalances, and per network the number of its
\* tokens that settled
NoBalanceCall ==
    [at |-> "idle", userAddress |-> 0,
     newBalances |-> [c \in BalanceNetworks |-> <<>>],
     fetched |-> [c \in BalanceNetworks |-> 0]]

\* fetchBalances after await Promise.all(promises): stores newBalances and,
\* in finally, clears loading
fetchSettled(b, r, call) ==
    [b EXCEPT !.balances = call.newBalances, !.loading = FALSE,
              !.calls[r] = [call EXCEPT !.at = "done"]]

InitBalances ==
    /\ DeriverIdle
    /\ lenientImport = FALSE
    /\ enc = NoEncrypt
    /\ prevEnc = NoEncrypt
    /\ wire = <<>>
    /\ dec = NoDecrypt
    /\ tasks = <<>>
    /\ PageIdle /\ TotalsIdle /\ WalletIdle
    /\ userBalances = [balances |-> <<>>, loading |-> FALSE,
                       calls |-> [r \in 1..MaxBalanceCalls |-> NoBalanceCall]]

\* fetchBalances(userAddress) is called, by the watch on address or after a
\* contribution, and runs to the first await of every network
FetchBalances(r, userAddress) ==
    /\ userBalances.calls[r].at = "idle"
    /\ \A q \in 1..(r - 1) : userBalances.calls[q].at # "idle"
    /\ userBalances' =
          [userBalances EXCEPT
              !.loading = TRUE,
              !.calls[r] = [NoBalanceCall EXCEPT !.at = "flight",
                               !.userAddress = userAddress]]
    /\ UNCHANGED <<deriveVars, cryptoVars, tasks, pageVars, totals, wallet>>

\* the next token fetch of a network settles, with a balance or with an
\* error that is caught and recorded; with the last fetch of the call
\* Promise.all resolves and the call stores its result
TokenBalanceSettles(r, chainId, ok) ==
    /\ userBalances.calls[r].at = "flight"
    /\ userBalances.calls[r].fetched[chainId] < Len(BalanceTokens)
    /\ LET call == userBalances.calls[r]
           value == IF ok THEN FormattedBalance(call.userAddress)
                    ELSE "Error"
           after == [call EXCEPT
                        !.fetched[chainId] = @ + 1,
                        !.newBalances[chainId] = Append(@, value)]
       IN  IF \A c \in BalanceNetworks : after.fetched[c] = Len(BalanceTokens)
           THEN userBalances' = fetchSettled(userBalances, r, after)
           ELSE userBalances' = [userBalances EXCEPT !.calls[r] = after]
    /\ UNCHANGED <<deriveVars, cryptoVars, tasks, pageVars, totals, wallet>>

NextBalances ==
    \/ \E r \in 1..MaxBalanceCalls, userAddress \in UserAddresses :
          FetchBalances(r, userAddress)
    \/ \E r \in 1..MaxBalanceCalls, chainId \in BalanceNetworks,
          ok \in BOOLEAN : TokenBalanceSettles(r, chainId, ok)

SpecBalances == InitBalances /\ [][NextBalances]_vars

\* the call that was started last
LastStarted ==
    CHOOSE r \in 1..MaxBalanceCalls :
        /\ userBalances.calls[r].at # "idle"
        /\ \A q \in (r + 1)..MaxBalanceCalls : userBalances.calls[q].at = "idle"

\* C24: once every fetchBalances call has settled, balances holds the
\* result of the call that was started last, and loading is true as long
\* as a call is in flight.
C24_LastCallWins ==
    /\ (userBalances.calls[1].at # "idle"
          /\ \A r \in 1..MaxBalanceCalls :
                userBalances.calls[r].at \in {"idle", "done"})
       => userBalances.balances = userBalances.calls[LastStarted].newBalances
    /\ (\E r \in 1..MaxBalanceCalls : userBalances.calls[r].at = "flight")
       => userBalances.loading

-----------------------------------------------------------------------------
(* The form after a contribution                                           *)

\* C25: a handleContribute call that fails after validation (no currency,
\* encryption rejected, the send rejected or failed, the amount not
\* parsed, the confirmation failed) sets txStatus to an error and leaves
\* email and contributionAmount as they are; the two fields change only in
\* the step in which a call's wait() succeeded, which clears them and sets
\* txStatus to success.
C25_FormKeptOnFailure ==
    [][/\ \A k \in 1..MaxClicks :
             (clicks[k].status # "error" /\ clicks'[k].status = "error") =>
                /\ page'.txStatus.type = "error"
                /\ page'.email = page.email
                /\ page'.contributionAmount = page.contributionAmount
       /\ (page'.email # page.email
             \/ page'.contributionAmount # page.contributionAmount) =>
             /\ \E k \in 1..MaxClicks :
                   clicks[k].at = "wait" /\ clicks'[k].status = "success"
             /\ page'.txStatus.type = "success"
             /\ page'.email = <<>> /\ page'.contributionAmount = "empty"
      ]_vars

C25_Witness ==
    /\ \E k \in 1..MaxClicks :
          /\ clicks[k].at = "done" /\ clicks[k].status = "error"
          /\ clicks[k].encryption = "resolved"
          /\ \E n \in 1..Len(page.sent) : page.sent[n].by = k
    /\ page.txStatus.type = "error"
    /\ page.email # <<>> /\ page.contributionAmount = "ok"

-----------------------------------------------------------------------------
(* The connecting flag                                                     *)

\* a connect() call is in flight
ConnectInFlight ==
    \E c \in 1..MaxWalletCalls :
        /\ wallet.setups[c].kind = "connect"
        /\ wallet.setups[c].at \in {"accounts", "chainId", "getSigner"}

\* C26: after every step connecting is true exactly when a connect() call
\* is in flight, whether the call returned or threw, and a step in which a
\* connect() call throws before setupWalletState (no provider, no account,
\* a rejected request) leaves address, chainId and connected as they are.
C26_ConnectingTracksConnect ==
    [][/\ wallet'.connecting <=> ConnectInFlight'
       /\ \A c \in 1..MaxWalletCalls :
             (/\ wallet'.setups[c].kind = "connect"
              /\ wallet.setups[c].at # "done"
              /\ wallet'.setups[c].at = "done"
              /\ wallet'.setups[c].ended \in {"provider", "accounts", "chainId"})
             => /\ wallet'.address = wallet.address
                /\ wallet'.chainId = wallet.chainId
                /\ wallet'.connected = wallet.connected
      ]_vars

C26_Witness ==
    /\ \E c \in 1..MaxWalletCalls :
          /\ wallet.setups[c].kind = "connect"
          /\ wallet.setups[c].at = "done"
          /\ wallet.setups[c].ended = "chainId"
    /\ ~wallet.connecting
    /\ wallet.connected /\ wallet.address # 0

=============================================================================
